---- MODULE Spec2Model ----
(***************************************************************************)
(* A model of the software KVM: the CH9329 packet encoders and its         *)
(* thread-per-packet sender (src/src/hid/ch9329.py), and the session       *)
(* controller that owns it (src/src/gui/main_window.py) together with the  *)
(* global input hook that calls into it (src/src/input/global_hook.py).    *)
(*                                                                         *)
(* A CH9329 object is a device index d; its fields are left_status[d],     *)
(* is_moving[d] and serial_port[d].  Every threading.Thread the driver     *)
(* starts is an entry of threads; wire is the order in which the threads   *)
(* got their packet through serial_port.write.                             *)
(***************************************************************************)
EXTENDS Integers, Sequences, FiniteSets, TLC

VARIABLES
    left_status,   \* CH9329.left_status, per device
    is_moving,     \* CH9329._is_moving, per device
    serial_port,   \* per device: "open" or "closed" (serial.Serial.is_open)
    threads,       \* every send thread started so far, in start order
    wire,          \* ids of the threads whose write() returned, in write order
    calls,         \* number of key / button requests made of a CH9329 so far
    closes,        \* per device: number of close() calls made on it
    stack,         \* per execution context: the frames of the calls in progress
    req,           \* the request a codec run is about to make (NoReq otherwise)
    budget,        \* what the run may still do: send threads it may start
                   \* in all, inputs of the user still to come
    is_remote_active,  \* MainWindow._is_remote_active
    ch9329,            \* MainWindow._ch9329: a device index, 0 for None
    video_thread,      \* MainWindow._video_thread: an index, 0 for None
    video_capture,     \* MainWindow._video_capture: an index, 0 for None
    input_hook,        \* MainWindow._input_hook: an index, 0 for None
    window_mode,       \* MainWindow._window_mode
    test_mode,         \* MainWindow._test_mode
    vthreads,          \* every VideoThread created: [running, stops]
    captures,          \* every VideoCapture created: [running, stops, width, height]
    hooks,             \* every GlobalInputHook created: [active, stops]
    window_open        \* the main window is shown (no closeEvent handled yet)

drv_vars == <<left_status, is_moving, serial_port, threads, wire, calls, closes>>
sess_vars == <<is_remote_active, ch9329, video_thread, video_capture,
               input_hook, window_mode, test_mode, vthreads, captures, hooks,
               window_open>>
vars == <<drv_vars, stack, req, budget, sess_vars>>
\* The session's fields other than the VideoThreads.
sess_vars_but_vthreads ==
    <<is_remote_active, ch9329, video_thread, video_capture, input_hook,
      window_mode, test_mode, captures, hooks, window_open>>

----------------------------------------------------------------------------
(* Bounds of the model. *)

\* Send threads a run may start (the init thread included).
MaxThreads == 4
\* Send threads a run of the fair specification may start (the init thread
\* included).
MaxFairThreads == 3
\* Send threads a run of the session specification may start.
MaxSessThreads == 3
\* Inputs of the user (clicks, toggles, key and mouse events) in a run of the
\* session specification.
MaxInputs == 3
\* Send threads a run that begins in a running session may start (the init
\* thread of its transport included).
MaxActiveThreads == 3
\* Inputs of the user in a run that begins in a running session.
MaxActiveInputs == 2
\* Send threads and inputs of the user in a run of the specification of the
\* handler's guard.
MaxGuardThreads == 1
MaxGuardInputs == 3
\* Send threads a run that handles one pointer event may start (the init
\* thread of its transport included).
MaxPointerThreads == 3
\* Largest coordinate / delta magnitude offered to the encoders beyond the
\* fixed edge values.
MaxArg == 3

----------------------------------------------------------------------------
(* Bytes and packets. *)

RECURSIVE SumSeq(_)
SumSeq(s) == IF s = <<>> THEN 0 ELSE s[1] + SumSeq(Tail(s))

Front(s) == SubSeq(s, 1, Len(s) - 1)
Last(s) == s[Len(s)]

Min2(a, b) == IF a < b THEN a ELSE b
Max2(a, b) == IF a > b THEN a ELSE b

\* Python's int(): truncation towards zero of n / d, for d > 0.
TruncDiv(n, d) == IF n >= 0 THEN n \div d ELSE -((-n) \div d)

\* CommandCode / KeyGroup
GET_INFO == 1
CharKey == 2
MediaKey == 3
SEND_MS_ABS_DATA == 4
SEND_MS_REL_DATA == 5

HEAD == <<87, 171>>
CHAR_KEY_UP_PACKET == <<87, 171, 0, 2, 8, 0, 0, 0, 0, 0, 0, 0, 0, 12>>
MEDIA_KEY_UP_PACKET == <<87, 171, 0, 3, 4, 2, 0, 0, 0, 11>>

\* A faulty variant of create_packet: the checksum leaves the two header bytes out.
create_packet_noheader(data_list) ==
    Append(data_list, SumSeq(SubSeq(data_list, 3, Len(data_list))) % 256)

\* CH9329._create_packet(data_list, True): sum(data_list) & 0xFF appended.
create_packet(data_list) == Append(data_list, SumSeq(data_list) % 256)

\* The packet of _init_device.
init_packet == create_packet(<<87, 171, 0, 8, 4, 1, 0>>)

\* The packet of get_info.
get_info_packet == <<87, 171, 0, GET_INFO, 0, 3>>

\* A faulty variant of key_down_packet: modifier and reserved byte swapped.
key_down_packet_swapped(key_group, modifier, key1, key2, key3, key4, key5, key6) ==
    create_packet(<<87, 171, 0, key_group, 8, 0, modifier,
                    key1, key2, key3, key4, key5, key6>>)

\* The packet of key_down.
key_down_packet(key_group, modifier, key1, key2, key3, key4, key5, key6) ==
    create_packet(<<87, 171, 0, key_group, 8, modifier, 0,
                    key1, key2, key3, key4, key5, key6>>)

\* The packet of key_up_all.
key_up_packet(key_group) ==
    IF key_group = CharKey THEN CHAR_KEY_UP_PACKET ELSE MEDIA_KEY_UP_PACKET

\* A faulty variant of rel_byte: the delta is reduced modulo 256 unclamped.
rel_byte_unclamped(v) == v % 256

\* x = max(-128, min(127, x)); if x < 0: x = 0x100 + x; x & 0xFF
rel_byte(v) ==
    LET c == Max2(-128, Min2(127, v))
    IN  (IF c < 0 THEN 256 + c ELSE c) % 256

\* The packet of mouse_move_rel, for the current left_status ls.
mouse_move_rel_packet(x, y, ls) ==
    create_packet(<<87, 171, 0, SEND_MS_REL_DATA, 5, 1, ls,
                    rel_byte(x), rel_byte(y), 0>>)

\* A faulty variant of norm_coord: the scaled value is not clamped.
norm_coord_unclamped(v, screen) ==
    IF screen > 0 THEN TruncDiv(v * 4096, screen) ELSE 0

\* int((x / screen) * 4096) if screen > 0 else 0, clamped to [0, 4095].
norm_coord(v, screen) ==
    LET n == IF screen > 0 THEN TruncDiv(v * 4096, screen) ELSE 0
    IN  Max2(0, Min2(4096 - 1, n))

\* int.to_bytes(2, byteorder='little')
to_bytes_le2(v) == <<v % 256, (v \div 256) % 256>>

\* The packet of mouse_move_abs: HEAD + ADDR + CMD + LEN + DATA + SUM.
mouse_move_abs_packet(x, y, screen_width, screen_height, ls) ==
    LET DATA0 == <<2, ls>> \o to_bytes_le2(norm_coord(x, screen_width))
                           \o to_bytes_le2(norm_coord(y, screen_height))
        DATA  == SubSeq(DATA0 \o <<0>>, 1, 7)
        SUM   == (SumSeq(HEAD) + 0 + 4 + 7 + SumSeq(DATA)) % 256
    IN  HEAD \o <<0>> \o <<SEND_MS_ABS_DATA>> \o <<7>> \o DATA \o <<SUM>>

\* The packet of mouse_button_down.
mouse_button_down_packet(button) ==
    create_packet(<<87, 171, 0, SEND_MS_REL_DATA, 5, 1, button, 0, 0, 0>>)

\* The packet of mouse_button_up_all.
mouse_button_up_packet == <<87, 171, 0, 5, 5, 1, 0, 0, 0, 0, 13>>

\* A faulty variant of mouse_scroll_packet: the wheel byte carries the delta.
mouse_scroll_packet_magnitude(delta) ==
    create_packet(<<87, 171, 0, SEND_MS_REL_DATA, 5, 1, 0, 0, 0, delta % 256>>)

\* The packet of mouse_scroll: scroll = 1 if delta > 0 else -1, as a byte.
mouse_scroll_packet(delta) ==
    LET s == IF delta > 0 THEN 1 ELSE -1
    IN  create_packet(<<87, 171, 0, SEND_MS_REL_DATA, 5, 1, 0, 0, 0,
                        (IF s < 0 THEN 256 + s ELSE s) % 256>>)

----------------------------------------------------------------------------
(* Execution contexts and their call stacks.  "ui" is the Qt GUI thread;   *)
(* "kb" and "ms" are the two pynput listener threads.  A frame is a call   *)
(* in progress: fn names the function, at the place it has reached, dev    *)
(* the CH9329 it was called on, ev the event it handles, tap the thread    *)
(* that carries the key-down packet of a key_type in progress.             *)

Ctx == {"ui", "kb", "ms"}

NoEv == [type |-> "none", keycode |-> 0, modifier |-> 0, x |-> 0, y |-> 0,
         button |-> 0, is_press |-> FALSE, is_release |-> FALSE,
         scroll_delta |-> 0]

Frame(fn, at, dev, ev) ==
    [fn |-> fn, at |-> at, dev |-> dev, ev |-> ev, tap |-> 0]

Idle(c) == stack[c] = <<>>
Top(c) == stack[c][Len(stack[c])]
\* Where a frame resumes when the call it makes returns: the statement after
\* the call.  processEvents() stays where it is until it returns itself.
ReturnTo(at) ==
    CASE at = "key" -> "ret"
      [] at = "mouse_stop" -> "ret"
      [] OTHER -> at
Resume(s) == IF s = <<>> THEN s ELSE [s EXCEPT ![Len(s)].at = ReturnTo(@)]
Push(c, f) == stack' = [stack EXCEPT ![c] = Append(Resume(@), f)]
Pop(c) == stack' = [stack EXCEPT ![c] = Front(@)]
Goto(c, at) == stack' = [stack EXCEPT ![c][Len(stack[c])].at = at]

NoReq == [op |-> "none", a |-> <<>>]

----------------------------------------------------------------------------
(* The transport: CH9329._send_packet and the threads it starts. *)

Thread(d, data, kind, tap) ==
    [dev |-> d, pkt |-> data, kind |-> kind, pc |-> "start", tap |-> tap]

\* Room for n more threads within the bound of the model.
Room(n) == Len(threads) + n <= budget.threads

\* _send_packet(data): threading.Thread(target=_send).start()
send_packet(d, data, kind, tap) ==
    threads' = Append(threads, Thread(d, data, kind, tap))

\* Where a send thread goes once its write is over: _send ends with
\* self._is_moving = False, _send_init has no such line.
AfterWrite(t) == IF threads[t].kind = "init" THEN "done" ELSE "clear"

\* `if self.serial_port and self.serial_port.is_open:` of _send / _send_init.
SendCheck(t) ==
    /\ threads[t].pc = "start"
    /\ threads' = [threads EXCEPT ![t].pc =
                     IF serial_port[threads[t].dev] = "open"
                     THEN "write" ELSE AfterWrite(t)]
    /\ UNCHANGED <<left_status, is_moving, serial_port, wire, calls, closes, stack, req, budget, sess_vars>>

\* self.serial_port.write(data); flush().  pyserial raises PortNotOpenError
\* when the port was closed after the check: the thread dies there.
SendWrite(t) ==
    /\ threads[t].pc = "write"
    /\ IF serial_port[threads[t].dev] = "open"
       THEN /\ wire' = Append(wire, t)
            /\ threads' = [threads EXCEPT ![t].pc = AfterWrite(t)]
       ELSE /\ wire' = wire
            /\ threads' = [threads EXCEPT ![t].pc = "dead"]
    /\ UNCHANGED <<left_status, is_moving, serial_port, calls, closes, stack, req, budget, sess_vars>>

\* self._is_moving = False, the last line of every _send.
SendClear(t) ==
    /\ threads[t].pc = "clear"
    /\ is_moving' = [is_moving EXCEPT ![threads[t].dev] = FALSE]
    /\ threads' = [threads EXCEPT ![t].pc = "done"]
    /\ UNCHANGED <<left_status, serial_port, wire, calls, closes, stack, req, budget, sess_vars>>

SendStep(t) == SendCheck(t) \/ SendWrite(t) \/ SendClear(t)

----------------------------------------------------------------------------
(* The operations of CH9329, as their effect on the driver's state.  Each  *)
(* is one call made on device d; the caller's stack is the caller's.       *)

\* A faulty variant of key_down: debounced like a relative move.
key_down_debounced(d, key_group, modifier, key1, key2, key3, key4, key5, key6, tap) ==
    /\ calls' = calls + 1
    /\ IF is_moving[d]
       THEN threads' = threads
       ELSE send_packet(d, key_down_packet(key_group, modifier, key1, key2,
                                          key3, key4, key5, key6), "key", tap)
    /\ UNCHANGED <<left_status, is_moving, serial_port, wire, closes>>

key_down(d, key_group, modifier, key1, key2, key3, key4, key5, key6, tap) ==
    /\ calls' = calls + 1
    /\ send_packet(d, key_down_packet(key_group, modifier, key1, key2,
                                      key3, key4, key5, key6), "key", tap)
    /\ UNCHANGED <<left_status, is_moving, serial_port, wire, closes>>

key_up_all(d, key_group, tap) ==
    /\ calls' = calls + 1
    /\ send_packet(d, key_up_packet(key_group), "keyup", tap)
    /\ UNCHANGED <<left_status, is_moving, serial_port, wire, closes>>

get_info(d) ==
    /\ send_packet(d, get_info_packet, "info", 0)
    /\ UNCHANGED <<left_status, is_moving, serial_port, wire, calls, closes>>

\* `if self._is_moving: return`, else flag set and packet sent.
mouse_move_rel(d, x, y) ==
    /\ IF is_moving[d]
       THEN UNCHANGED <<is_moving, threads>>
       ELSE /\ is_moving' = [is_moving EXCEPT ![d] = TRUE]
            /\ send_packet(d, mouse_move_rel_packet(x, y, left_status[d]), "rel", 0)
    /\ UNCHANGED <<left_status, serial_port, wire, calls, closes>>

mouse_move_abs(d, x, y, screen_width, screen_height) ==
    /\ send_packet(d, mouse_move_abs_packet(x, y, screen_width, screen_height,
                                            left_status[d]), "abs", 0)
    /\ UNCHANGED <<left_status, is_moving, serial_port, wire, calls, closes>>

\* A faulty variant of mouse_button_down: any button sets left_status.
mouse_button_down_any(d, button) ==
    /\ calls' = calls + 1
    /\ left_status' = [left_status EXCEPT ![d] = 1]
    /\ send_packet(d, mouse_button_down_packet(button), "btn", 0)
    /\ UNCHANGED <<is_moving, serial_port, wire, closes>>

mouse_button_down(d, button) ==
    /\ calls' = calls + 1
    /\ left_status' = IF button = 1 THEN [left_status EXCEPT ![d] = 1]
                      ELSE left_status
    /\ send_packet(d, mouse_button_down_packet(button), "btn", 0)
    /\ UNCHANGED <<is_moving, serial_port, wire, closes>>

mouse_button_up_all(d) ==
    /\ calls' = calls + 1
    /\ left_status' = [left_status EXCEPT ![d] = 0]
    /\ send_packet(d, mouse_button_up_packet, "btnup", 0)
    /\ UNCHANGED <<is_moving, serial_port, wire, closes>>

mouse_scroll(d, delta) ==
    /\ send_packet(d, mouse_scroll_packet(delta), "scroll", 0)
    /\ UNCHANGED <<left_status, is_moving, serial_port, wire, calls, closes>>

\* A faulty variant of close: the button state is reset as well.
close_resetting(d) ==
    /\ serial_port' = [serial_port EXCEPT ![d] =
                         IF @ = "open" THEN "closed" ELSE @]
    /\ closes' = [closes EXCEPT ![d] = @ + 1]
    /\ left_status' = [left_status EXCEPT ![d] = 0]
    /\ UNCHANGED <<is_moving, threads, wire, calls>>

\* close(): `if self.serial_port and self.serial_port.is_open: close()`
close(d) ==
    /\ serial_port' = [serial_port EXCEPT ![d] =
                         IF @ = "open" THEN "closed" ELSE @]
    /\ closes' = [closes EXCEPT ![d] = @ + 1]
    /\ UNCHANGED <<left_status, is_moving, threads, wire, calls>>

\* key_type up to its time.sleep(0.02): key_down, then the caller sleeps.
\* Both threads of the tap carry the id of the key-down thread.
key_type_down(c, d, modifier, key) ==
    /\ key_down(d, CharKey, modifier, key, 0, 0, 0, 0, 0, Len(threads) + 1)
    /\ Push(c, [Frame("key_type", "sleep", d, NoEv) EXCEPT !.tap = Len(threads) + 1])

\* key_type after the sleep: key_up_all(KeyGroup.CharKey), and return.
key_type_up(c) ==
    /\ ~Idle(c)
    /\ Top(c).fn = "key_type"
    /\ key_up_all(Top(c).dev, CharKey, Top(c).tap)
    /\ Pop(c)

\* media_key up to its second call: key_down(KeyGroup.MediaKey, media_key[0],
\* media_key[1], media_key[2], media_key[3]).
media_key_down(c, d, media_key) ==
    /\ key_down(d, MediaKey, media_key[1], media_key[2], media_key[3],
                media_key[4], 0, 0, 0, 0)
    /\ Push(c, Frame("media_key", "up", d, NoEv))

\* media_key's second call: key_up_all(KeyGroup.MediaKey), and return.
media_key_up(c) ==
    /\ ~Idle(c)
    /\ Top(c).fn = "media_key"
    /\ key_up_all(Top(c).dev, MediaKey, 0)
    /\ Pop(c)

----------------------------------------------------------------------------
(* State after construction. *)

\* MainWindow.__init__: no session, window mode on, test mode off.
InitSession ==
    /\ is_remote_active = FALSE
    /\ ch9329 = 0
    /\ video_thread = 0
    /\ video_capture = 0
    /\ input_hook = 0
    /\ window_mode = TRUE
    /\ test_mode = FALSE
    /\ vthreads = <<>>
    /\ captures = <<>>
    /\ hooks = <<>>
    /\ window_open = TRUE

\* CH9329.__init__ with the port opened: fields at their defaults and the
\* init thread of _init_device started.
InitDriver ==
    /\ left_status = <<0>>
    /\ is_moving = <<FALSE>>
    /\ serial_port = <<"open">>
    /\ threads = <<Thread(1, init_packet, "init", 0)>>
    /\ wire = <<>>
    /\ calls = 0
    /\ closes = <<0>>

----------------------------------------------------------------------------
(* Spec: one CH9329, called directly from the three contexts, its send     *)
(* threads scheduled freely.                                               *)

Init ==
    /\ InitDriver
    /\ InitSession
    /\ stack = [c \in Ctx |-> <<>>]
    /\ req = NoReq
    /\ budget = [threads |-> MaxThreads, inputs |-> 0]

\* The contexts that call the driver directly: the two listener threads.
Callers == {"kb", "ms"}

Caller == UNCHANGED <<stack, req, budget, sess_vars>>

CallKeyDown ==
    \E c \in Callers :
        Idle(c) /\ Room(1) /\ key_down(1, CharKey, 2, 4, 0, 0, 0, 0, 0, 0) /\ Caller

CallKeyUpAll ==
    \E c \in Callers :
        Idle(c) /\ Room(1) /\ key_up_all(1, CharKey, 0) /\ Caller

CallKeyType ==
    \E c \in Callers :
        /\ Idle(c) /\ Room(2)
        /\ key_type_down(c, 1, 2, 4)
        /\ UNCHANGED <<req, budget, sess_vars>>

KeyTypeUp ==
    \E c \in Ctx : key_type_up(c) /\ UNCHANGED <<req, budget, sess_vars>>

CallMouseMoveRel ==
    \E c \in Callers :
        Idle(c) /\ Room(1) /\ mouse_move_rel(1, 1, -1) /\ Caller

CallMouseMoveAbs ==
    \E c \in Callers :
        Idle(c) /\ Room(1) /\ mouse_move_abs(1, 960, 540, 1920, 1080) /\ Caller

CallMouseButtonDown ==
    \E c \in Callers :
        Idle(c) /\ Room(1) /\ mouse_button_down(1, 1) /\ Caller

CallMouseButtonUpAll ==
    \E c \in Callers : Idle(c) /\ Room(1) /\ mouse_button_up_all(1) /\ Caller

CallClose ==
    \E c \in Callers : Idle(c) /\ closes[1] = 0 /\ close(1) /\ Caller

Send == \E t \in 1..Len(threads) : SendStep(t)

Next ==
    \/ CallKeyType
    \/ KeyTypeUp
    \/ CallMouseMoveRel
    \/ CallMouseMoveAbs
    \/ CallMouseButtonDown
    \/ CallMouseButtonUpAll
    \/ CallClose
    \/ Send

Spec == Init /\ [][Next]_vars

----------------------------------------------------------------------------
(* SpecCodec: one call of one operation on a fresh CH9329, its arguments   *)
(* drawn over their whole range; the threads it starts run to the wire.    *)

Bytes == 0..255
KeySample == {0, 4, 255}
RelArgs == (-MaxArg..MaxArg) \cup {-200, -129, -128, -127, 126, 127, 128, 200}
AbsArgs == (-MaxArg..MaxArg) \cup {959, 960, 1079, 1080, 1919, 1920, 1921, 5000}
Screens == {<<1920, 1080>>, <<640, 480>>, <<0, 0>>}
Buttons == 0..(4 + MaxArg)
ScrollArgs == (-MaxArg..MaxArg) \cup {-120, 120}

\* class MediaKey
MediaKeys == {<<2, 128, 0, 0>>, <<2, 64, 0, 0>>, <<2, 32, 0, 0>>, <<2, 16, 0, 0>>,
              <<2, 8, 0, 0>>, <<2, 4, 0, 0>>, <<2, 2, 0, 0>>, <<2, 1, 0, 0>>}

Req(op, a) == [op |-> op, a |-> a]

CodecReqs ==
    {Req("key_down", <<g, m, k1, k2>>) :
        g \in {CharKey, MediaKey}, m \in Bytes, k1 \in KeySample, k2 \in {0, 255}}
    \cup {Req("key_up_all", <<g>>) : g \in {CharKey, MediaKey}}
    \cup {Req("key_type", <<m, k>>) : m \in {0, 1, 2, 15, 255}, k \in KeySample}
    \cup {Req("media_key", mk) : mk \in MediaKeys}
    \cup {Req("mouse_move_rel", <<x, y>>) : x \in RelArgs, y \in RelArgs}
    \cup {Req("mouse_move_abs", <<x, y, sc[1], sc[2]>>) :
            x \in AbsArgs, y \in AbsArgs, sc \in Screens}
    \cup {Req("mouse_button_down", <<b>>) : b \in Buttons}
    \cup {Req("mouse_button_up_all", <<>>)}
    \cup {Req("mouse_scroll", <<delta>>) : delta \in ScrollArgs}
    \cup {Req("get_info", <<>>)}

InitCodec ==
    /\ left_status \in {<<0>>, <<1>>}
    /\ is_moving = <<FALSE>>
    /\ serial_port = <<"open">>
    /\ threads = <<Thread(1, init_packet, "init", 0)>>
    /\ wire = <<>>
    /\ calls = 0
    /\ closes = <<0>>
    /\ InitSession
    /\ stack = [c \in Ctx |-> <<>>]
    /\ req \in CodecReqs
    /\ budget = [threads |-> MaxThreads, inputs |-> 0]

Served == req' = NoReq /\ UNCHANGED <<stack, budget, sess_vars>>

CodecKeyDown ==
    /\ req.op = "key_down"
    /\ key_down(1, req.a[1], req.a[2], req.a[3], req.a[4], req.a[4],
                req.a[4], req.a[4], req.a[4], 0)
    /\ Served

CodecKeyUpAll ==
    /\ req.op = "key_up_all"
    /\ key_up_all(1, req.a[1], 0)
    /\ Served

CodecKeyType ==
    /\ req.op = "key_type"
    /\ key_type_down("ui", 1, req.a[1], req.a[2])
    /\ req' = NoReq
    /\ UNCHANGED <<budget, sess_vars>>

CodecMediaKey ==
    /\ req.op = "media_key"
    /\ media_key_down("ui", 1, req.a)
    /\ req' = NoReq
    /\ UNCHANGED <<budget, sess_vars>>

MediaKeyUp ==
    \E c \in Ctx : media_key_up(c) /\ UNCHANGED <<req, budget, sess_vars>>

CodecMouseMoveRel ==
    /\ req.op = "mouse_move_rel"
    /\ mouse_move_rel(1, req.a[1], req.a[2])
    /\ Served

CodecMouseMoveAbs ==
    /\ req.op = "mouse_move_abs"
    /\ mouse_move_abs(1, req.a[1], req.a[2], req.a[3], req.a[4])
    /\ Served

CodecMouseButtonDown ==
    /\ req.op = "mouse_button_down"
    /\ mouse_button_down(1, req.a[1])
    /\ Served

CodecMouseButtonUpAll ==
    /\ req.op = "mouse_button_up_all"
    /\ mouse_button_up_all(1)
    /\ Served

CodecMouseScroll ==
    /\ req.op = "mouse_scroll"
    /\ mouse_scroll(1, req.a[1])
    /\ Served

CodecGetInfo ==
    /\ req.op = "get_info"
    /\ get_info(1)
    /\ Served

NextCodec ==
    \/ CodecKeyDown
    \/ CodecKeyUpAll
    \/ CodecKeyType
    \/ KeyTypeUp
    \/ CodecMediaKey
    \/ MediaKeyUp
    \/ CodecMouseMoveRel
    \/ CodecMouseMoveAbs
    \/ CodecMouseButtonDown
    \/ CodecMouseButtonUpAll
    \/ CodecMouseScroll
    \/ CodecGetInfo
    \/ Send

SpecCodec == InitCodec /\ [][NextCodec]_vars

----------------------------------------------------------------------------
(* Claims about the packets. *)

Pkt(t) == threads[t].pkt
Written(t) == \E i \in 1..Len(wire) : wire[i] = t

\* C1: every packet given to a send thread (and so every packet written to
\* the serial port) ends with the sum of all its preceding bytes, the two
\* header bytes included, modulo 256.
C1_Checksum ==
    \A t \in 1..Len(threads) : Last(Pkt(t)) = SumSeq(Front(Pkt(t))) % 256

\* C1 witness: a key-down packet with modifier 0xFF and key bytes 0xFF, whose
\* byte sum wraps past 256 several times, has been written to the port.
C1_Witness ==
    \E t \in 1..Len(threads) :
        /\ Written(t)
        /\ threads[t].kind = "key"
        /\ Pkt(t)[6] = 255
        /\ Pkt(t)[8] = 255
        /\ SumSeq(Front(Pkt(t))) > 3 * 256

\* C2: in every packet given to a send thread the fifth byte (len) is the
\* number of data bytes between it and the checksum byte.
C2_FrameLen ==
    \A t \in 1..Len(threads) : Pkt(t)[5] = Len(Pkt(t)) - 6

----------------------------------------------------------------------------
(* Claims about the order of writes. *)

\* The threads started by _send_packet, in the order their writes returned
\* (the init thread of _init_device is not a submission).
SentWire == SelectSeq(wire, LAMBDA t : threads[t].kind # "init")

\* C3: packets reach the port in the order of their submission to
\* _send_packet: thread ids, which follow submission order, increase along
\* the wire.
C3_SubmissionOrder ==
    \A i, j \in 1..Len(SentWire) : i < j => SentWire[i] < SentWire[j]

\* C4: the release-all packet of a key_type is written right after the
\* key-down packet of the same key_type: the key-down first, and no packet of
\* another sender between the two.
C4_KeyTypeAtomic ==
    \A j \in 1..Len(SentWire) :
        LET t == SentWire[j]
        IN  (threads[t].kind = "keyup" /\ threads[t].tap # 0)
                => (j > 1 /\ SentWire[j - 1] = threads[t].tap)

\* A relative-move packet submitted and not yet through write().
InFlightRel ==
    {t \in 1..Len(threads) :
        threads[t].kind = "rel" /\ threads[t].pc \in {"start", "write"}}

\* C5: a mouse_move_rel made while a relative-move packet is in flight is
\* dropped, so no two relative-move packets are ever in flight together.
C5_Debounce == Cardinality(InFlightRel) <= 1

----------------------------------------------------------------------------
(* SpecFair: key, button and relative-move calls on one CH9329 whose port  *)
(* stays open, every started thread scheduled eventually.                  *)

InitFair ==
    /\ InitDriver
    /\ InitSession
    /\ stack = [c \in Ctx |-> <<>>]
    /\ req = NoReq
    /\ budget = [threads |-> MaxFairThreads, inputs |-> 0]

NextFair ==
    \/ CallKeyDown
    \/ CallKeyUpAll
    \/ CallMouseButtonDown
    \/ CallMouseButtonUpAll
    \/ CallMouseMoveRel
    \/ Send

\* A started thread is a runnable OS thread: it gets to run.
SpecFair ==
    /\ InitFair
    /\ [][NextFair]_vars
    /\ \A t \in 1..MaxFairThreads : WF_vars(t <= Len(threads) /\ SendStep(t))

KeyButtonKinds == {"key", "keyup", "btn", "btnup"}

KeyButtonThreads ==
    {t \in 1..Len(threads) : threads[t].kind \in KeyButtonKinds}

\* C6: every key_down, key_up_all, mouse_button_down and mouse_button_up_all
\* call starts a send thread whatever is_moving is (as many key / button
\* threads as calls), and with the port open each such thread gets its packet
\* written.
C6_NeverDropped ==
    /\ [](calls = Cardinality(KeyButtonThreads))
    /\ \A t \in 1..MaxFairThreads : (t \in KeyButtonThreads) ~> Written(t)

\* C6 witness: a key or button packet submitted after a relative move that is
\* still in flight, with is_moving set, has been written.
C6_Witness ==
    /\ is_moving[1]
    /\ \E t \in KeyButtonThreads :
          /\ Written(t)
          /\ \E r \in InFlightRel : r < t

----------------------------------------------------------------------------
(* The session controller, MainWindow.  Its methods run on the GUI thread  *)
(* and, in global mode, on the two listener threads; a method is a frame   *)
(* that advances one statement group at a time.                            *)

\* An unhandled exception on the GUI thread ends the process (PyQt aborts);
\* on a listener thread it ends that thread.
Aborted == stack["ui"] # <<>> /\ stack["ui"][1].fn = "abort"
Alive == ~Aborted /\ (window_open \/ stack["ui"] # <<>>)

At(c, fn, at) == Alive /\ ~Idle(c) /\ Top(c).fn = fn /\ Top(c).at = at

\* AttributeError: a method called on a reference that is None by now.
Raise(c) ==
    stack' = [stack EXCEPT ![c] =
                <<Frame(IF c = "ui" THEN "abort" ELSE "dead", "end", 0, NoEv)>>]

\* A faulty variant of IsMock: the sink is taken for a CH9329.
IsMock_never(d) == FALSE

\* MockCH9329 has no serial port: its methods only print.
IsMock(d) == serial_port[d] = "none"

OnlyStack == UNCHANGED <<drv_vars, req, budget, sess_vars>>

(* _stop_remote_session *)

\* self._is_remote_active = False; poll timer stopped.
StopBegin(c) ==
    /\ At(c, "stop", "begin")
    /\ is_remote_active' = FALSE
    /\ Goto(c, "processEvents")
    /\ UNCHANGED <<drv_vars, req, budget, ch9329, video_thread, video_capture,
                   input_hook, window_mode, test_mode, vthreads, captures,
                   hooks, window_open>>

\* QApplication.processEvents() returns (the events it dispatched on the GUI
\* thread ran as frames above this one).
StopProcessEvents(c) ==
    /\ At(c, "stop", "processEvents")
    /\ Goto(c, "vt_check")
    /\ OnlyStack

\* if self._video_thread:
StopVtCheck(c) ==
    /\ At(c, "stop", "vt_check")
    /\ Goto(c, IF video_thread # 0 THEN "vt_stop" ELSE "vc_check")
    /\ OnlyStack

\* self._video_thread.stop(), of a thread whose run() entered its loop long
\* before (SpecVideo has the other interleavings of start, run and stop).
StopVtStop(c) ==
    /\ At(c, "stop", "vt_stop")
    /\ IF video_thread = 0
       THEN Raise(c) /\ vthreads' = vthreads
       ELSE /\ vthreads' = [vthreads EXCEPT ![video_thread] =
                              [running |-> FALSE, stops |-> @.stops + 1]]
            /\ Goto(c, "vt_none")
    /\ UNCHANGED <<drv_vars, req, budget, is_remote_active, ch9329, video_thread,
                   video_capture, input_hook, window_mode, test_mode, captures,
                   hooks, window_open>>

\* self._video_thread = None
StopVtNone(c) ==
    /\ At(c, "stop", "vt_none")
    /\ video_thread' = 0
    /\ Goto(c, "vc_check")
    /\ UNCHANGED <<drv_vars, req, budget, is_remote_active, ch9329,
                   video_capture, input_hook, window_mode, test_mode, vthreads,
                   captures, hooks, window_open>>

\* if self._video_capture:
StopVcCheck(c) ==
    /\ At(c, "stop", "vc_check")
    /\ Goto(c, IF video_capture # 0 THEN "vc_stop" ELSE "hook_check")
    /\ OnlyStack

\* self._video_capture.stop()
StopVcStop(c) ==
    /\ At(c, "stop", "vc_stop")
    /\ IF video_capture = 0
       THEN Raise(c) /\ captures' = captures
       ELSE /\ captures' = [captures EXCEPT ![video_capture] =
                              [running |-> FALSE, stops |-> @.stops + 1]]
            /\ Goto(c, "vc_none")
    /\ UNCHANGED <<drv_vars, req, budget, is_remote_active, ch9329, video_thread,
                   video_capture, input_hook, window_mode, test_mode, vthreads,
                   hooks, window_open>>

\* self._video_capture = None
StopVcNone(c) ==
    /\ At(c, "stop", "vc_none")
    /\ video_capture' = 0
    /\ Goto(c, "hook_check")
    /\ UNCHANGED <<drv_vars, req, budget, is_remote_active, ch9329, video_thread,
                   input_hook, window_mode, test_mode, vthreads, captures, hooks,
                   window_open>>

\* if self._input_hook:
StopHookCheck(c) ==
    /\ At(c, "stop", "hook_check")
    /\ Goto(c, IF input_hook # 0 THEN "hook_stop" ELSE "ch_check")
    /\ OnlyStack

\* self._input_hook.stop(): _is_active = False, both listeners stopped.
StopHookStop(c) ==
    /\ At(c, "stop", "hook_stop")
    /\ IF input_hook = 0
       THEN Raise(c) /\ hooks' = hooks
       ELSE /\ hooks' = [hooks EXCEPT ![input_hook] =
                           [@ EXCEPT !.active = FALSE, !.stops = @ + 1]]
            /\ Goto(c, "hook_none")
    /\ UNCHANGED <<drv_vars, req, budget, is_remote_active, ch9329, video_thread,
                   video_capture, input_hook, window_mode, test_mode, vthreads,
                   captures, window_open>>

\* self._input_hook = None
StopHookNone(c) ==
    /\ At(c, "stop", "hook_none")
    /\ input_hook' = 0
    /\ Goto(c, "ch_check")
    /\ UNCHANGED <<drv_vars, req, budget, is_remote_active, ch9329, video_thread,
                   video_capture, window_mode, test_mode, vthreads, captures,
                   hooks, window_open>>

\* if self._ch9329:
StopChCheck(c) ==
    /\ At(c, "stop", "ch_check")
    /\ Goto(c, IF ch9329 # 0 THEN "ch_close" ELSE "ui_reset")
    /\ OnlyStack

\* self._ch9329.close()
StopChClose(c) ==
    /\ At(c, "stop", "ch_close")
    /\ IF ch9329 = 0
       THEN Raise(c) /\ UNCHANGED drv_vars
       ELSE close(ch9329) /\ Goto(c, "ch_none")
    /\ UNCHANGED <<req, budget, sess_vars>>

\* self._ch9329 = None
StopChNone(c) ==
    /\ At(c, "stop", "ch_none")
    /\ ch9329' = 0
    /\ Goto(c, "ui_reset")
    /\ UNCHANGED <<drv_vars, req, budget, is_remote_active, video_thread,
                   video_capture, input_hook, window_mode, test_mode, vthreads,
                   captures, hooks, window_open>>

\* The labels and the status bar are reset, and the method returns.
StopReturn(c) ==
    /\ At(c, "stop", "ui_reset")
    /\ Pop(c)
    /\ OnlyStack

(* _start_remote_session, on the GUI thread *)

\* video_label.size() and MainWindow._video_width, _video_height.
widget_size == <<1280, 1024>>
video_width == 1920
video_height == 1080

\* The sizes in force: <<widget_w, widget_h, screen_w, screen_h>>.  A run
\* that draws them holds them in req; otherwise they are the sizes above.
Geometry ==
    IF req.op = "geometry" THEN req.a
    ELSE <<widget_size[1], widget_size[2], video_width, video_height>>

\* The sizes a capture device may grant when _video_width x _video_height is
\* asked of it: that size, or the one it falls back to.
GrantedSizes == {<<Geometry[3], Geometry[4]>>, <<640, 480>>}

\* VideoCapture after a successful start(): width and height are the size
\* the device reports (actual_w, actual_h), whatever was requested.
Capture(width, height) ==
    [running |-> TRUE, stops |-> 0, width |-> width, height |-> height]

NewDevice(port) ==
    /\ left_status' = Append(left_status, 0)
    /\ is_moving' = Append(is_moving, FALSE)
    /\ serial_port' = Append(serial_port, port)
    /\ closes' = Append(closes, 0)
    /\ ch9329' = Len(serial_port) + 1
    /\ UNCHANGED <<wire, calls>>

\* The video part: no device selected, or VideoCapture.start() fails
\* (self._video_capture = None), or it succeeds and a VideoThread is started.
StartVideo ==
    /\ At("ui", "start", "video")
    /\ \E outcome \in {"no_device", "failed", "started"} :
         CASE outcome = "no_device" ->
                UNCHANGED <<video_capture, video_thread, captures, vthreads>>
           [] outcome = "failed" ->
                /\ video_capture' = 0
                /\ UNCHANGED <<video_thread, captures, vthreads>>
           [] outcome = "started" ->
                /\ \E size \in GrantedSizes :
                     captures' = Append(captures, Capture(size[1], size[2]))
                /\ video_capture' = Len(captures) + 1
                /\ vthreads' = Append(vthreads, [running |-> TRUE, stops |-> 0])
                /\ video_thread' = Len(vthreads) + 1
    /\ Goto("ui", "transport")
    /\ UNCHANGED <<drv_vars, req, budget, is_remote_active, ch9329, input_hook,
                   window_mode, test_mode, hooks, window_open>>

\* The transport part: MockCH9329 in test mode, with no port selected or when
\* CH9329(port) raises; otherwise a CH9329 with its port open and its init
\* thread started.
StartTransport ==
    /\ At("ui", "start", "transport")
    /\ \E outcome \in {"no_port", "failed", "opened"} :
         IF test_mode \/ outcome # "opened"
         THEN NewDevice("none") /\ threads' = threads
         ELSE /\ Room(1)
              /\ NewDevice("open")
              /\ threads' = Append(threads, Thread(Len(serial_port) + 1,
                                                   init_packet, "init", 0))
    /\ Goto("ui", "hook")
    /\ UNCHANGED <<req, budget, is_remote_active, video_thread, video_capture,
                   input_hook, window_mode, test_mode, vthreads, captures, hooks,
                   window_open>>

\* The input part: nothing in window mode; in global mode a GlobalInputHook
\* is created and started, or its constructor raises, or its start() raises
\* (the reference is assigned before start() is called); on either exception
\* window_mode_cb.setChecked(True) sets _window_mode.
StartHook ==
    /\ At("ui", "start", "hook")
    /\ IF window_mode
       THEN UNCHANGED <<input_hook, hooks, window_mode>>
       ELSE \E outcome \in {"started", "ctor_raises", "start_raises"} :
              CASE outcome = "started" ->
                     /\ hooks' = Append(hooks, [active |-> TRUE, stops |-> 0, modifier_state |-> 0])
                     /\ input_hook' = Len(hooks) + 1
                     /\ window_mode' = window_mode
                [] outcome = "ctor_raises" ->
                     /\ window_mode' = TRUE
                     /\ UNCHANGED <<input_hook, hooks>>
                [] outcome = "start_raises" ->
                     /\ hooks' = Append(hooks, [active |-> FALSE, stops |-> 0, modifier_state |-> 0])
                     /\ input_hook' = Len(hooks) + 1
                     /\ window_mode' = TRUE
    /\ Goto("ui", "activate")
    /\ UNCHANGED <<drv_vars, req, budget, is_remote_active, ch9329, video_thread,
                   video_capture, test_mode, vthreads, captures, window_open>>

\* self._is_remote_active = True; labels set; return.
StartActivate ==
    /\ At("ui", "start", "activate")
    /\ is_remote_active' = TRUE
    /\ Pop("ui")
    /\ UNCHANGED <<drv_vars, req, budget, ch9329, video_thread, video_capture,
                   input_hook, window_mode, test_mode, vthreads, captures, hooks,
                   window_open>>

(* Events of the GUI thread.  Qt dispatches one when the event loop is idle *)
(* or inside the processEvents() call of a _stop_remote_session.            *)

\* One more input of the user, within the bound of the model.
Input ==
    /\ budget.inputs > 0
    /\ budget' = [budget EXCEPT !.inputs = @ - 1]

ByUser == Input /\ UNCHANGED <<drv_vars, req, sess_vars>>

UIReady ==
    /\ Alive
    /\ window_open
    /\ IF Idle("ui") THEN TRUE
       ELSE Top("ui").fn = "stop" /\ Top("ui").at = "processEvents"

\* start_btn.clicked: _toggle_remote_session.
ClickStartStop ==
    /\ UIReady
    /\ IF is_remote_active
       THEN Push("ui", Frame("stop", "begin", 0, NoEv))
       ELSE Push("ui", Frame("start", "video", 0, NoEv))
    /\ ByUser

\* closeEvent: _stop_remote_session(), then the window closes.
CloseWindow ==
    /\ UIReady
    /\ stack' = [stack EXCEPT !["ui"] =
                   @ \o <<Frame("closeEvent", "after_stop", 0, NoEv),
                          Frame("stop", "begin", 0, NoEv)>>]
    /\ ByUser

CloseWindowDone ==
    /\ At("ui", "closeEvent", "after_stop")
    /\ window_open' = FALSE
    /\ Pop("ui")
    /\ UNCHANGED <<drv_vars, req, budget, is_remote_active, ch9329, video_thread,
                   video_capture, input_hook, window_mode, test_mode, vthreads,
                   captures, hooks>>

\* test_mode_cb.stateChanged: _toggle_test_mode.
ToggleTestMode ==
    /\ UIReady
    /\ test_mode' = ~test_mode
    /\ Input
    /\ UNCHANGED <<drv_vars, stack, req, is_remote_active, ch9329,
                   video_thread, video_capture, input_hook, window_mode,
                   vthreads, captures, hooks, window_open>>

\* window_mode_cb.stateChanged: _toggle_window_mode.
ToggleWindowMode ==
    /\ UIReady
    /\ window_mode' = ~window_mode
    /\ Input
    /\ UNCHANGED <<drv_vars, stack, req, is_remote_active, ch9329,
                   video_thread, video_capture, input_hook, test_mode, vthreads,
                   captures, hooks, window_open>>

(* Input events and MainWindow._handle_input_event *)

\* KeyMap.get_hid_code: the keycode lookup service, 0 for an unmapped key.
\* Qt's Key_A (65) and the hook's code for 'a' (4) are mapped here.
KeyMap_get_hid_code(keycode) == IF keycode \in {4, 65} THEN 4 ELSE 0

KeyEvent(keycode, is_press, modifier) ==
    [NoEv EXCEPT !.type = "key", !.keycode = keycode, !.is_press = is_press,
                 !.modifier = modifier]

MouseEvent(x, y, button, is_press, is_release, scroll_delta) ==
    [NoEv EXCEPT !.type = "mouse", !.x = x, !.y = y, !.button = button,
                 !.is_press = is_press, !.is_release = is_release,
                 !.scroll_delta = scroll_delta]

(* Python's float arithmetic on the integers of the geometry.  a / b is the *)
(* double nearest to the quotient; the operators below compute int() of a  *)
(* product or quotient with that double exactly, from the remainder of the *)
(* division that produced it.                                              *)

RECURSIVE Pow2(_)
Pow2(n) == IF n = 0 THEN 1 ELSE 2 * Pow2(n - 1)

RECURSIVE PowMod2(_, _)
PowMod2(n, m) == IF n = 0 THEN 1 % m ELSE (2 * PowMod2(n - 1, m)) % m

\* floor(log2(a / b)), the exponent of the double a / b.
RECURSIVE FloorLog2(_, _)
FloorLog2(a, b) ==
    IF a >= 2 * b THEN 1 + FloorLog2(a, 2 * b)
    ELSE IF a < b THEN FloorLog2(2 * a, b) - 1
    ELSE 0

\* lhs > rhs * 2^d
Exceeds(lhs, rhs, d) ==
    IF d >= 0 THEN lhs >= 1 /\ (lhs - 1) \div Pow2(d) >= rhs
    ELSE lhs * Pow2(-d) > rhs

\* The rounding of a / b to a double with a 53-bit significand: sign is that
\* of (double - quotient), and the error is n / b units in the last place.
float_err(a, b) ==
    LET j == FloorLog2(a, b)
        r == ((a % b) * PowMod2(52 - j, b)) % b
        r2 == ((a % (2 * b)) * PowMod2(52 - j, 2 * b)) % (2 * b)
    IN  IF r = 0 THEN [sign |-> 0, n |-> 0, j |-> j]
        ELSE IF 2 * r < b THEN [sign |-> -1, n |-> r, j |-> j]
        ELSE IF 2 * r > b THEN [sign |-> 1, n |-> b - r, j |-> j]
        ELSE IF r2 >= b THEN [sign |-> 1, n |-> b - r, j |-> j]
        ELSE [sign |-> -1, n |-> r, j |-> j]

\* 1 when v is a power of two (the doubles below it are twice as dense).
AtPow2(v) == IF v = Pow2(FloorLog2(v, 1)) THEN 1 ELSE 0

\* int((a / b) * c) for a, c >= 0 and b > 0.
int_quot_times(a, b, c) ==
    IF a = 0 \/ c = 0 THEN 0
    ELSE IF (a * c) % b # 0 THEN (a * c) \div b
    ELSE LET v == (a * c) \div b
             e == float_err(a, b)
         IN  IF e.sign < 0
                /\ Exceeds(2 * c * e.n, b, FloorLog2(v, 1) - e.j - AtPow2(v))
             THEN v - 1 ELSE v

\* int(c / (a / b)) for c >= 0 and a, b > 0.
int_div_quot(c, a, b) ==
    IF c = 0 THEN 0
    ELSE IF (c * b) % a # 0 THEN (c * b) \div a
    ELSE LET v == (c * b) \div a
             e == float_err(a, b)
         IN  IF e.sign > 0
                /\ Exceeds(e.n * v, a, FloorLog2(v, 1) - e.j - 1 - AtPow2(v))
             THEN v - 1 ELSE v

\* A faulty variant of display_rect: the bars are not halved, the whole
\* difference is taken as the offset.
display_rect_uncentred(widget_w, widget_h, screen_w, screen_h) ==
    LET va == IF screen_h > 0 THEN <<screen_w, screen_h>> ELSE <<1, 1>>
    IN  IF widget_w * va[2] > va[1] * widget_h
        THEN LET dw == int_quot_times(va[1], va[2], widget_h)
             IN  [display_w |-> dw, display_h |-> widget_h,
                  offset_x |-> widget_w - dw, offset_y |-> 0]
        ELSE LET dh == int_div_quot(widget_w, va[1], va[2])
             IN  [display_w |-> widget_w, display_h |-> dh,
                  offset_x |-> 0, offset_y |-> widget_h - dh]

\* The letterbox of _handle_mouse_event: where the picture lies in the
\* widget.  video_aspect is screen_w / screen_h (1 if screen_h is not
\* positive), widget_aspect is widget_w / widget_h; two distinct ratios of
\* such integers never round to the same double.
display_rect(widget_w, widget_h, screen_w, screen_h) ==
    LET va == IF screen_h > 0 THEN <<screen_w, screen_h>> ELSE <<1, 1>>
    IN  IF widget_w * va[2] > va[1] * widget_h
        THEN LET dw == int_quot_times(va[1], va[2], widget_h)
             IN  [display_w |-> dw, display_h |-> widget_h,
                  offset_x |-> (widget_w - dw) \div 2, offset_y |-> 0]
        ELSE LET dh == int_div_quot(widget_w, va[1], va[2])
             IN  [display_w |-> widget_w, display_h |-> dh,
                  offset_x |-> 0, offset_y |-> (widget_h - dh) \div 2]

Letterbox ==
    IF Geometry[1] > 0 /\ Geometry[2] > 0
    THEN display_rect(Geometry[1], Geometry[2], Geometry[3], Geometry[4])
    ELSE [display_w |-> 1, display_h |-> 1, offset_x |-> 0, offset_y |-> 0]

\* in_video_area of an event at widget point (ex, ey).
in_video_area(ex, ey) ==
    /\ Geometry[1] > 0 /\ Geometry[2] > 0
    /\ 0 <= ex - Letterbox.offset_x /\ ex - Letterbox.offset_x <= Letterbox.display_w
    /\ 0 <= ey - Letterbox.offset_y /\ ey - Letterbox.offset_y <= Letterbox.display_h

\* A faulty variant of abs_coord: the widget pixel is sent as it is.
abs_coord_unscaled(v, display, screen) == v

\* abs_x = int((x / display_w) * screen_w), for 0 <= x <= display_w and
\* display_w > 0.
abs_coord(v, display, screen) == int_quot_times(v, display, screen)

\* What the window's InputWidget hands to its callback: key press and
\* release, mouse press and release at the cursor, the wheel (always at
\* x=0, y=0) and the polled cursor position.
WidgetEvents ==
    { KeyEvent(65, TRUE, 2), KeyEvent(1, TRUE, 0),
      MouseEvent(640, 512, 1, TRUE, FALSE, 0),
      MouseEvent(640, 512, 4, TRUE, FALSE, 0),
      MouseEvent(640, 512, 0, FALSE, TRUE, 0),
      MouseEvent(0, 0, 0, FALSE, FALSE, 1) }

\* What the keyboard listener of a GlobalInputHook hands to its callback.
HookKeyEvents == { KeyEvent(4, TRUE, 0), KeyEvent(4, FALSE, 0) }

\* What the mouse listener hands to its callback.
HookMouseEvents ==
    { MouseEvent(640, 512, 0, FALSE, FALSE, 0),
      MouseEvent(640, 512, 4, TRUE, FALSE, 0),
      MouseEvent(640, 512, 4, FALSE, TRUE, 0) }

\* InputWidget.keyPressEvent .. wheelEvent: self._callback(event), the
\* callback being _handle_input_event whatever the mode.
WidgetEvent ==
    /\ UIReady
    /\ \E ev \in WidgetEvents : Push("ui", Frame("handle_input", "guard", 0, ev))
    /\ ByUser

\* GlobalInputHook._on_key_press, _on_key_release on the keyboard listener
\* thread: `if not self._is_active or not self._callback: return`, else the
\* callback is called on that thread.
HookKeyEvent ==
    /\ Alive
    /\ Idle("kb")
    /\ \E h \in 1..Len(hooks) : hooks[h].active
    /\ \E ev \in HookKeyEvents : Push("kb", Frame("handle_input", "guard", 0, ev))
    /\ ByUser

\* GlobalInputHook._on_mouse_move, _on_mouse_click, _on_mouse_scroll on the
\* mouse listener thread.
HookMouseEvent ==
    /\ Alive
    /\ Idle("ms")
    /\ \E h \in 1..Len(hooks) : hooks[h].active
    /\ \E ev \in HookMouseEvents : Push("ms", Frame("handle_input", "guard", 0, ev))
    /\ ByUser

\* A faulty variant of HGuard: the event is dispatched whatever the session's state.
HGuard_unguarded(c) ==
    /\ At(c, "handle_input", "guard")
    /\ Goto(c, IF Top(c).ev.type = "key" THEN "key" ELSE "mouse_guard")
    /\ OnlyStack

\* `if not self._is_remote_active or not self._ch9329: return`, then the
\* dispatch on the event's class.
HGuard(c) ==
    /\ At(c, "handle_input", "guard")
    /\ Goto(c, IF ~is_remote_active \/ ch9329 = 0 THEN "discard"
               ELSE IF Top(c).ev.type = "key" THEN "key" ELSE "mouse_guard")
    /\ OnlyStack

\* The `return` of a guard that found the session not active.
HDiscard(c) ==
    /\ At(c, "handle_input", "discard")
    /\ Pop(c)
    /\ OnlyStack

\* _handle_key_event: a press whose keycode is mapped is typed.
HKey(c) ==
    /\ At(c, "handle_input", "key")
    /\ LET ev == Top(c).ev
           hid_code == KeyMap_get_hid_code(ev.keycode)
       IN  IF ev.is_press /\ hid_code # 0
           THEN IF ch9329 = 0 THEN Raise(c) /\ UNCHANGED drv_vars
                ELSE IF IsMock(ch9329) THEN Goto(c, "ret") /\ UNCHANGED drv_vars
                ELSE Room(2) /\ key_type_down(c, ch9329, ev.modifier, hid_code)
           ELSE Goto(c, "ret") /\ UNCHANGED drv_vars
    /\ UNCHANGED <<req, budget, sess_vars>>

\* A faulty variant of HMouseGuard: the letterbox is not consulted.
HMouseGuard_anywhere(c) ==
    /\ At(c, "handle_input", "mouse_guard")
    /\ Goto(c, IF ~is_remote_active \/ ch9329 = 0 THEN "discard" ELSE "mouse_move")
    /\ OnlyStack

\* _handle_mouse_event up to `if not in_video_area: return`: its own guard,
\* then the letterbox.
HMouseGuard(c) ==
    /\ At(c, "handle_input", "mouse_guard")
    /\ Goto(c, IF ~is_remote_active \/ ch9329 = 0 THEN "discard"
               ELSE IF in_video_area(Top(c).ev.x, Top(c).ev.y) THEN "mouse_move"
               ELSE "ret")
    /\ OnlyStack

\* mouse_scroll(event.scroll_delta), or mouse_move_abs(abs_x, abs_y, screen_w,
\* screen_h).  x / display_w raises ZeroDivisionError for a picture without
\* width, as y / display_h does for one without height.
HMouseMove(c) ==
    /\ At(c, "handle_input", "mouse_move")
    /\ LET ev == Top(c).ev
           screen_w == Geometry[3]
           screen_h == Geometry[4]
           abs_x == abs_coord(ev.x - Letterbox.offset_x, Letterbox.display_w, screen_w)
           abs_y == abs_coord(ev.y - Letterbox.offset_y, Letterbox.display_h, screen_h)
       IN  IF ev.scroll_delta = 0
              /\ (Letterbox.display_w = 0 \/ Letterbox.display_h = 0)
           THEN Raise(c) /\ UNCHANGED drv_vars
           ELSE IF ch9329 = 0 THEN Raise(c) /\ UNCHANGED drv_vars
           ELSE /\ Goto(c, "mouse_button")
                /\ IF IsMock(ch9329) THEN UNCHANGED drv_vars
                   ELSE /\ Room(1)
                        /\ IF ev.scroll_delta # 0
                           THEN mouse_scroll(ch9329, ev.scroll_delta)
                           ELSE mouse_move_abs(ch9329, abs_x, abs_y,
                                               screen_w, screen_h)
    /\ UNCHANGED <<req, budget, sess_vars>>

\* `if event.is_press: mouse_button_down(event.button)`, and then the stop
\* on the middle button; `elif event.is_release: mouse_button_up_all()`.
HMouseButton(c) ==
    /\ At(c, "handle_input", "mouse_button")
    /\ LET ev == Top(c).ev
       IN  IF ~ev.is_press /\ ~ev.is_release
           THEN Goto(c, "ret") /\ UNCHANGED drv_vars
           ELSE IF ch9329 = 0 THEN Raise(c) /\ UNCHANGED drv_vars
           ELSE /\ Goto(c, IF ev.is_press /\ ev.button = 4 THEN "mouse_stop" ELSE "ret")
                /\ IF IsMock(ch9329) THEN UNCHANGED drv_vars
                   ELSE /\ Room(1)
                        /\ IF ev.is_press THEN mouse_button_down(ch9329, ev.button)
                           ELSE mouse_button_up_all(ch9329)
    /\ UNCHANGED <<req, budget, sess_vars>>

\* `if event.button == 0x04: self._stop_remote_session()`
HMouseStop(c) ==
    /\ At(c, "handle_input", "mouse_stop")
    /\ Push(c, Frame("stop", "begin", 0, NoEv))
    /\ OnlyStack

\* The handler returns.
HRet(c) ==
    /\ At(c, "handle_input", "ret")
    /\ Pop(c)
    /\ OnlyStack

----------------------------------------------------------------------------
(* SpecSession: the window with no session, the user's actions on it, the  *)
(* two listener threads and the send threads, all scheduled freely.        *)

InitSess ==
    /\ InitSession
    /\ left_status = <<>>
    /\ is_moving = <<>>
    /\ serial_port = <<>>
    /\ threads = <<>>
    /\ wire = <<>>
    /\ calls = 0
    /\ closes = <<>>
    /\ stack = [c \in Ctx |-> <<>>]
    /\ req = NoReq
    /\ budget = [threads |-> MaxSessThreads, inputs |-> MaxInputs]

Stop ==
    \E c \in Ctx :
        \/ StopBegin(c) \/ StopProcessEvents(c)
        \/ StopVtCheck(c) \/ StopVtStop(c) \/ StopVtNone(c)
        \/ StopVcCheck(c) \/ StopVcStop(c) \/ StopVcNone(c)
        \/ StopHookCheck(c) \/ StopHookStop(c) \/ StopHookNone(c)
        \/ StopChCheck(c) \/ StopChClose(c) \/ StopChNone(c)
        \/ StopReturn(c)

Start == StartVideo \/ StartTransport \/ StartHook \/ StartActivate

Handle ==
    \E c \in Ctx :
        \/ HGuard(c) \/ HDiscard(c) \/ HKey(c)
        \/ HMouseGuard(c) \/ HMouseMove(c) \/ HMouseButton(c)
        \/ HMouseStop(c) \/ HRet(c)

KeyTypeReturn == Alive /\ KeyTypeUp

SessSend == Alive /\ Send

NextSession ==
    \/ ClickStartStop
    \/ CloseWindow
    \/ CloseWindowDone
    \/ ToggleTestMode
    \/ ToggleWindowMode
    \/ WidgetEvent
    \/ HookKeyEvent
    \/ HookMouseEvent
    \/ Start
    \/ Stop
    \/ Handle
    \/ KeyTypeReturn
    \/ SessSend

SpecSession == InitSess /\ [][NextSession]_vars

----------------------------------------------------------------------------
(* SpecActive: the same window and the same steps, from a running session. *)

\* The state SpecSession is in after ToggleWindowMode, ClickStartStop and the
\* four steps of _start_remote_session with every device opening, and the
\* steps of the transport's init thread: global mode, the video thread and
\* source running, the listeners started, the transport's port open and its
\* init packet written.
InitActive ==
    /\ is_remote_active = TRUE
    /\ ch9329 = 1
    /\ video_thread = 1
    /\ video_capture = 1
    /\ input_hook = 1
    /\ window_mode = FALSE
    /\ test_mode = FALSE
    /\ vthreads = <<[running |-> TRUE, stops |-> 0]>>
    /\ captures = <<Capture(video_width, video_height)>>
    /\ hooks = <<[active |-> TRUE, stops |-> 0, modifier_state |-> 0]>>
    /\ window_open = TRUE
    /\ left_status = <<0>>
    /\ is_moving = <<FALSE>>
    /\ serial_port = <<"open">>
    /\ threads = <<[Thread(1, init_packet, "init", 0) EXCEPT !.pc = "done"]>>
    /\ wire = <<1>>
    /\ calls = 0
    /\ closes = <<0>>
    /\ stack = [c \in Ctx |-> <<>>]
    /\ req = NoReq
    /\ budget = [threads |-> MaxActiveThreads, inputs |-> MaxActiveInputs]

SpecActive == InitActive /\ [][NextSession]_vars

----------------------------------------------------------------------------
(* SpecGuard: the window from construction, with room for one send thread  *)
(* only: a session's transport is a MockCH9329, or a CH9329 whose init     *)
(* thread is the only one, so that no key_type is ever in progress.        *)

InitGuard ==
    /\ InitSession
    /\ left_status = <<>>
    /\ is_moving = <<>>
    /\ serial_port = <<>>
    /\ threads = <<>>
    /\ wire = <<>>
    /\ calls = 0
    /\ closes = <<>>
    /\ stack = [c \in Ctx |-> <<>>]
    /\ req = NoReq
    /\ budget = [threads |-> MaxGuardThreads, inputs |-> MaxGuardInputs]

NextGuard ==
    \/ ClickStartStop
    \/ CloseWindow
    \/ CloseWindowDone
    \/ ToggleTestMode
    \/ ToggleWindowMode
    \/ WidgetEvent
    \/ HookKeyEvent
    \/ HookMouseEvent
    \/ Start
    \/ Stop
    \/ Handle
    \/ SessSend

SpecGuard == InitGuard /\ [][NextGuard]_vars

----------------------------------------------------------------------------
(* Claims about the session controller. *)

Handling(c) == ~Idle(c) /\ Top(c).fn = "handle_input"

NotActive == ~is_remote_active \/ ch9329 = 0

\* C7: while the session is not Active (_is_remote_active false or no
\* transport set), an input event delivered to _handle_input_event is
\* discarded without side effects: a guard of the handler evaluated in such
\* a state only moves the handler to its return, and that return only ends
\* the handler; no packet is submitted, and left_status, _is_moving, the
\* session's resources and the session's state are unchanged.
C7_InactiveDiscards ==
    [][\A c \in Ctx :
         (Handling(c) /\ stack'[c] # stack[c]) =>
           /\ (Top(c).at \in {"guard", "mouse_guard"} /\ NotActive) =>
                /\ stack'[c] = [stack[c] EXCEPT ![Len(stack[c])].at = "discard"]
                /\ UNCHANGED <<drv_vars, sess_vars>>
           /\ (Top(c).at = "discard") =>
                /\ stack'[c] = Front(stack[c])
                /\ UNCHANGED <<drv_vars, sess_vars>>]_vars

\* An event about to be discarded by a session that is stopping: the
\* transport is still set, _is_remote_active is already false.
C7_Witness ==
    \E c \in Ctx :
        /\ Handling(c)
        /\ Top(c).at = "discard"
        /\ ~is_remote_active
        /\ ch9329 # 0

\* C8: stop is idempotent: whether _stop_remote_session is called twice in a
\* row or from two contexts at once, the video thread, the video source, the
\* input hook and the transport are each stopped or closed at most once.
C8_StopOnce ==
    /\ \A i \in 1..Len(vthreads) : vthreads[i].stops <= 1
    /\ \A i \in 1..Len(captures) : captures[i].stops <= 1
    /\ \A i \in 1..Len(hooks) : hooks[i].stops <= 1
    /\ \A d \in 1..Len(closes) : closes[d] <= 1

OpenTransports == {d \in 1..Len(serial_port) : serial_port[d] = "open"}

\* C9: at most one CH9329 serial connection created by the session
\* controller is open at any time, whatever the start, stop, toggle and
\* window-close actions and however they nest through processEvents().
C9_OneTransport == Cardinality(OpenTransports) <= 1

\* C10: input events are serialized: at no time are two executions of
\* _handle_input_event in progress in two contexts.
C10_Serialized ==
    Cardinality({c \in Ctx : \E i \in 1..Len(stack[c]) :
                                 stack[c][i].fn = "handle_input"}) <= 1

----------------------------------------------------------------------------
(* SpecPointer: one pointer event handled by a running session, the sizes  *)
(* of the widget and of the video and the event drawn from bounded sets.   *)

\* Sizes of the video label (any the window can be given, the empty one
\* included) and of the video (resolutions a capture device offers).
WidgetSizes ==
    {<<1280, 1024>>, <<1920, 1080>>, <<800, 600>>, <<1000, 1000>>,
     <<300, 100>>, <<1, 1000>>, <<0, 0>>}
VideoSizes == {<<1920, 1080>>, <<1280, 1024>>, <<640, 480>>, <<1366, 768>>}

Geometries == {<<w[1], w[2], v[1], v[2]>> : w \in WidgetSizes, v \in VideoSizes}

\* Along one axis: just before the picture, its first pixel, its middle,
\* its last pixel, and just after.
AxisPoints(offset, display) ==
    {offset - 1, offset, offset + display \div 2, offset + display,
     offset + display + 1}

\* The mouse events of InputWidget and of the mouse listener at those
\* points: a move, a left press, a release, the wheel up and down (one
\* notch, and the larger steps a mouse listener may report), and a press of
\* the middle button.
PointerEvents(g) ==
    LET rect == display_rect(g[1], g[2], g[3], g[4])
    IN  {MouseEvent(x, y, k[1], k[2], k[3], k[4]) :
            x \in AxisPoints(rect.offset_x, rect.display_w),
            y \in AxisPoints(rect.offset_y, rect.display_h),
            k \in {<<0, FALSE, FALSE, 0>>, <<1, TRUE, FALSE, 0>>,
                   <<0, FALSE, TRUE, 0>>, <<0, FALSE, FALSE, 1>>,
                   <<0, FALSE, FALSE, -MaxArg>>, <<0, FALSE, FALSE, 120>>,
                   <<4, TRUE, FALSE, 0>>}}

\* A running session (as in InitActive) whose callback has just been called
\* with the event, on the GUI thread or on the mouse listener thread.
InitPointer ==
    /\ is_remote_active = TRUE
    /\ ch9329 = 1
    /\ video_thread = 1
    /\ video_capture = 1
    /\ input_hook = 1
    /\ window_mode = FALSE
    /\ test_mode = FALSE
    /\ vthreads = <<[running |-> TRUE, stops |-> 0]>>
    /\ hooks = <<[active |-> TRUE, stops |-> 0, modifier_state |-> 0]>>
    /\ window_open = TRUE
    /\ left_status = <<0>>
    /\ is_moving = <<FALSE>>
    /\ serial_port = <<"open">>
    /\ threads = <<[Thread(1, init_packet, "init", 0) EXCEPT !.pc = "done"]>>
    /\ wire = <<1>>
    /\ calls = 0
    /\ closes = <<0>>
    /\ budget = [threads |-> MaxPointerThreads, inputs |-> 0]
    /\ \E g \in Geometries :
         /\ req = Req("geometry", g)
         /\ captures = <<Capture(g[3], g[4])>>
         /\ \E c \in {"ui", "ms"}, ev \in PointerEvents(g) :
              stack = [x \in Ctx |->
                         IF x = c THEN <<Frame("handle_input", "guard", 0, ev)>>
                         ELSE <<>>]

PointerHandle ==
    \E c \in Ctx :
        \/ HGuard(c) \/ HMouseGuard(c) \/ HMouseMove(c) \/ HMouseButton(c)
        \/ HMouseStop(c) \/ HRet(c)

NextPointer == PointerHandle \/ Stop \/ SessSend

SpecPointer == InitPointer /\ [][NextPointer]_vars

----------------------------------------------------------------------------
(* Claims about pointer events. *)

\* The mouse event a context is handling, at any depth of its stack.
PointerFrames ==
    {f \in UNION {{stack[c][i] : i \in 1..Len(stack[c])} : c \in Ctx} :
        f.fn = "handle_input" /\ f.ev.type = "mouse"}

\* The event's letterbox-local position is outside
\* [0, display_w] x [0, display_h].
OutsideDisplay(ev) ==
    LET lx == ev.x - Letterbox.offset_x
        ly == ev.y - Letterbox.offset_y
    IN  lx < 0 \/ lx > Letterbox.display_w \/ ly < 0 \/ ly > Letterbox.display_h

\* C11: a pointer event whose letterbox-local position lies outside
\* [0, display_w] x [0, display_h] produces no packet (no absolute move, no
\* scroll, no button-down, no release-all) and changes no codec state: its
\* handler never reaches a call on the transport, no send thread is started
\* and left_status and _is_moving stay as they were.
C11_OutsideNoPacket ==
    \A f \in PointerFrames :
        OutsideDisplay(f.ev) =>
            /\ f.at \in {"guard", "mouse_guard", "ret"}
            /\ Len(threads) = 1
            /\ calls = 0
            /\ left_status = <<0>>
            /\ is_moving = <<FALSE>>

\* A left press just past the right edge of the picture has been handled to
\* its return.
C11_Witness ==
    \E f \in PointerFrames :
        /\ f.at = "ret"
        /\ f.ev.is_press
        /\ f.ev.x - Letterbox.offset_x = Letterbox.display_w + 1
        /\ f.ev.y - Letterbox.offset_y = Letterbox.display_h \div 2
        /\ Letterbox.display_h > 0

\* The event is at the centre of the displayed video rectangle, whose width
\* and height are even.
AtCentre(ev) ==
    /\ Letterbox.display_w % 2 = 0
    /\ Letterbox.display_h % 2 = 0
    /\ ev.x = Letterbox.offset_x + Letterbox.display_w \div 2
    /\ ev.y = Letterbox.offset_y + Letterbox.display_h \div 2

\* The 12-bit coordinates an absolute-move frame carries, low byte first.
AbsX(pkt) == pkt[8] + 256 * pkt[9]
AbsY(pkt) == pkt[10] + 256 * pkt[11]

\* C12: for every widget size and every even-dimensioned video size whose
\* displayed rectangle has an even width and height (1920x1080 in a 1280x1024
\* area among them), a pointer event at the centre of that rectangle, once its
\* handler is past the move, has put an absolute-move packet on its way whose
\* coordinates are both within 1 of 2048.
C12_CentreIsMiddle ==
    \A f \in PointerFrames :
        (AtCentre(f.ev) /\ Geometry[3] % 2 = 0 /\ Geometry[4] % 2 = 0
            /\ f.ev.scroll_delta = 0 /\ f.at \in {"mouse_button", "ret"}) =>
            \E i \in 1..Len(threads) :
                /\ threads[i].kind = "abs"
                /\ AbsX(threads[i].pkt) \in 2047..2049
                /\ AbsY(threads[i].pkt) \in 2047..2049

\* The 1920x1080 video in the 1280x1024 area, the pointer at (640, 512): the
\* absolute move written to the port carries (2048, 2048).
C12_Witness ==
    /\ Geometry = <<1280, 1024, 1920, 1080>>
    /\ Letterbox = [display_w |-> 1280, display_h |-> 720,
                    offset_x |-> 0, offset_y |-> 152]
    /\ \E f \in PointerFrames : f.ev.x = 640 /\ f.ev.y = 512 /\ f.at = "ret"
    /\ \E i \in 1..Len(threads) :
         /\ threads[i].kind = "abs"
         /\ threads[i].pc = "done"
         /\ threads[i].pkt[8] = 0 /\ threads[i].pkt[9] = 8
         /\ threads[i].pkt[10] = 0 /\ threads[i].pkt[11] = 8

----------------------------------------------------------------------------
(* Claims about the packets of the codec's operations. *)

\* The request req has just been served by the codec.
ServedNow(op) == req.op = op /\ req'.op = "none"

\* The packet of the send thread the step has started.
NewPkt == threads'[Len(threads')].pkt
Started == Len(threads') = Len(threads) + 1

\* n is v / screen scaled to 4096 units, cut to an integer and clamped to
\* [0, 4095].
Scaled12(n, v, screen) ==
    IF v * 4096 >= 4095 * screen THEN n = 4095
    ELSE IF v <= 0 THEN n = 0
    ELSE n * screen <= v * 4096 /\ v * 4096 < (n + 1) * screen

\* C13: mouse_move_abs(x, y, screen_w, screen_h) always sends one packet with
\* command 0x04, length 7 and payload [0x02, left_status, x_lo, x_hi, y_lo,
\* y_hi, 0x00]; the two 2-byte little-endian fields are x/screen_w and
\* y/screen_h scaled to 12 bits and clamped to [0, 4095], for negative x, y
\* and for x, y at or past the screen size as well.
C13_AbsPacket ==
    [][ServedNow("mouse_move_abs") =>
        /\ Started
        /\ Len(NewPkt) = 13
        /\ SubSeq(NewPkt, 1, 7) = <<87, 171, 0, 4, 7, 2, left_status[1]>>
        /\ NewPkt[12] = 0
        /\ \A i \in 8..11 : NewPkt[i] \in 0..255
        /\ AbsX(NewPkt) \in 0..4095
        /\ AbsY(NewPkt) \in 0..4095
        /\ req.a[3] > 0 => Scaled12(AbsX(NewPkt), req.a[1], req.a[3])
        /\ req.a[4] > 0 => Scaled12(AbsY(NewPkt), req.a[2], req.a[4])]_vars

\* An absolute move with x at the screen width and y negative has been
\* written: its fields are 4095 (FF 0F) and 0.
C13_Witness ==
    \E t \in 1..Len(threads) :
        /\ Written(t)
        /\ threads[t].kind = "abs"
        /\ SubSeq(Pkt(t), 8, 11) = <<255, 15, 0, 0>>
        /\ Pkt(t)[7] = 1

\* b is v clamped to [-128, 127] as an 8-bit two's-complement byte.
Clamped8(b, v) ==
    /\ v <= -128 => b = 128
    /\ (-128 < v /\ v < 0) => b = 256 + v
    /\ (0 <= v /\ v < 127) => b = v
    /\ v >= 127 => b = 127

\* C14: mouse_move_rel(dx, dy), when it is not debounced, sends a packet whose
\* x and y bytes are dx and dy clamped to [-128, 127] in 8-bit two's
\* complement and whose button byte is the current left_status.
C14_RelPacket ==
    [][(ServedNow("mouse_move_rel") /\ ~is_moving[1]) =>
        /\ Started
        /\ Len(NewPkt) = 11
        /\ SubSeq(NewPkt, 1, 6) = <<87, 171, 0, 5, 5, 1>>
        /\ NewPkt[7] = left_status[1]
        /\ Clamped8(NewPkt[8], req.a[1])
        /\ Clamped8(NewPkt[9], req.a[2])
        /\ NewPkt[10] = 0]_vars

\* A relative move by (-200, 200) with the left button held has been written
\* as button 1, x = 0x80, y = 0x7F.
C14_Witness ==
    \E t \in 1..Len(threads) :
        /\ Written(t)
        /\ threads[t].kind = "rel"
        /\ SubSeq(Pkt(t), 7, 9) = <<1, 128, 127>>

\* C15: key_down in the character-key group sends exactly the bytes
\* [57 AB 00 02 08 modifier 00 key1 key2 key3 key4 key5 key6 checksum]; a
\* caller that supplies one key only (key_type(modifier, key)) gets 00 in
\* the slots key2..key6.
C15_KeyDownBytes ==
    [][/\ (ServedNow("key_down") /\ req.a[1] = CharKey) =>
            /\ Started
            /\ NewPkt = <<87, 171, 0, 2, 8, req.a[2], 0, req.a[3], req.a[4],
                          req.a[4], req.a[4], req.a[4], req.a[4],
                          (87 + 171 + 2 + 8 + req.a[2] + req.a[3]
                              + 5 * req.a[4]) % 256>>
       /\ ServedNow("key_type") =>
            /\ Started
            /\ NewPkt = <<87, 171, 0, 2, 8, req.a[1], 0, req.a[2], 0, 0, 0, 0,
                          0, (87 + 171 + 2 + 8 + req.a[1] + req.a[2]) % 256>>
      ]_vars

\* The key-down of key_type(0xFF, 0x04) has been written as
\* 57 AB 00 02 08 FF 00 04 00 00 00 00 00 0F.
C15_Witness ==
    \E t \in 1..Len(threads) :
        /\ Written(t)
        /\ threads[t].tap = t
        /\ Pkt(t) = <<87, 171, 0, 2, 8, 255, 0, 4, 0, 0, 0, 0, 0, 15>>

\* C16: mouse_button_down(button) sets left_status to 1 exactly when button
\* is 0x01 and leaves it as it was for any other button, and its packet
\* carries the button; mouse_button_up_all sends the fixed packet
\* 57 AB 00 05 05 01 00 00 00 00 0D and sets left_status to 0.
C16_Buttons ==
    [][/\ ServedNow("mouse_button_down") =>
            /\ left_status'[1] = IF req.a[1] = 1 THEN 1 ELSE left_status[1]
            /\ Started
            /\ NewPkt = <<87, 171, 0, 5, 5, 1, req.a[1], 0, 0, 0,
                          (87 + 171 + 5 + 5 + 1 + req.a[1]) % 256>>
       /\ ServedNow("mouse_button_up_all") =>
            /\ left_status'[1] = 0
            /\ Started
            /\ NewPkt = <<87, 171, 0, 5, 5, 1, 0, 0, 0, 0, 13>>
      ]_vars

\* A press of a button other than the primary one has been written and
\* left_status is still 0.
C16_Witness ==
    /\ left_status = <<0>>
    /\ \E t \in 1..Len(threads) :
         /\ Written(t)
         /\ threads[t].kind = "btn"
         /\ Pkt(t)[7] = 4

\* C18: mouse_scroll is sign-only: the wheel byte is 0x01 for a positive
\* delta and 0xFF for a negative one, whatever its magnitude; and the session
\* controller asks for a scroll packet only for an event whose delta is not
\* zero.
C18_ScrollSign ==
    \A f \in PointerFrames :
        /\ \A t \in 1..Len(threads) :
             threads[t].kind = "scroll" =>
                /\ f.ev.scroll_delta # 0
                /\ Pkt(t) = <<87, 171, 0, 5, 5, 1, 0, 0, 0,
                              IF f.ev.scroll_delta > 0 THEN 1 ELSE 255,
                              IF f.ev.scroll_delta > 0 THEN 14 ELSE 12>>
        /\ (f.ev.scroll_delta # 0 /\ f.at \in {"mouse_button", "ret"}
                /\ ~OutsideDisplay(f.ev) /\ Geometry[1] > 0 /\ Geometry[2] > 0) =>
             \E t \in 1..Len(threads) : threads[t].kind = "scroll"

\* A wheel event of several notches down, inside the picture, has been
\* written with wheel byte 0xFF.
C18_Witness ==
    \E f \in PointerFrames, t \in 1..Len(threads) :
        /\ f.ev.scroll_delta < -1
        /\ f.at = "ret"
        /\ Written(t)
        /\ threads[t].kind = "scroll"
        /\ Pkt(t)[10] = 255

----------------------------------------------------------------------------
(* SpecFrame: every operation of a CH9329 called once on an open driver,    *)
(* and the handlers of a running session given an event on the GUI thread  *)
(* and one on the mouse listener thread.                                   *)

\* One call of each public operation of CH9329.
FrameReqs ==
    {Req("key_down", <<CharKey, 2, 4, 0>>), Req("key_up_all", <<CharKey>>),
     Req("key_type", <<2, 4>>), Req("media_key", <<2, 128, 0, 0>>),
     Req("mouse_move_rel", <<1, -1>>),
     Req("mouse_move_abs", <<960, 540, 1920, 1080>>),
     Req("mouse_button_down", <<1>>), Req("mouse_button_down", <<2>>),
     Req("mouse_button_up_all", <<>>), Req("mouse_scroll", <<1>>),
     Req("get_info", <<>>), Req("close", <<>>)}

CodecClose ==
    /\ req.op = "close"
    /\ close(1)
    /\ Served

\* The stack of a context that has just been handed one of the events (or
\* none).
Handed(evs) ==
    {<<>>} \cup {<<Frame("handle_input", "guard", 0, ev)>> : ev \in evs}

InitFrame ==
    /\ left_status \in {<<0>>, <<1>>}
    /\ is_moving = <<FALSE>>
    /\ serial_port = <<"open">>
    /\ threads = <<[Thread(1, init_packet, "init", 0) EXCEPT !.pc = "done"]>>
    /\ wire = <<1>>
    /\ calls = 0
    /\ closes = <<0>>
    /\ budget = [threads |-> MaxPointerThreads, inputs |-> 0]
    /\ \/ /\ InitSession
          /\ stack = [c \in Ctx |-> <<>>]
          /\ req \in FrameReqs
       \/ /\ is_remote_active = TRUE
          /\ ch9329 = 1
          /\ video_thread = 1
          /\ video_capture = 1
          /\ input_hook = 1
          /\ window_mode = FALSE
          /\ test_mode = FALSE
          /\ vthreads = <<[running |-> TRUE, stops |-> 0]>>
          /\ captures = <<Capture(video_width, video_height)>>
          /\ hooks = <<[active |-> TRUE, stops |-> 0, modifier_state |-> 0]>>
          /\ window_open = TRUE
          /\ req = NoReq
          /\ \E u \in Handed(WidgetEvents), m \in Handed(HookMouseEvents) :
               stack = [c \in Ctx |-> IF c = "ui" THEN u
                                      ELSE IF c = "ms" THEN m ELSE <<>>]

NextFrame ==
    \/ CodecKeyDown
    \/ CodecKeyUpAll
    \/ CodecKeyType
    \/ CodecMediaKey
    \/ MediaKeyUp
    \/ CodecMouseMoveRel
    \/ CodecMouseMoveAbs
    \/ CodecMouseButtonDown
    \/ CodecMouseButtonUpAll
    \/ CodecMouseScroll
    \/ CodecGetInfo
    \/ CodecClose
    \/ Handle
    \/ Stop
    \/ KeyTypeReturn
    \/ SessSend

SpecFrame == InitFrame /\ [][NextFrame]_vars

\* C17: left_status is written only by mouse_button_down and
\* mouse_button_up_all: a step that changes the left_status of a driver is a
\* step of one of these two on that driver (it starts the send thread of a
\* button packet), so key_down, key_up_all, key_type, media_key,
\* mouse_move_rel, mouse_move_abs, mouse_scroll, get_info, close, the send
\* threads and every step of the session controller's handlers leave it as
\* it is.
C17_LeftStatusFrame ==
    [][left_status' # left_status =>
        /\ Len(left_status') = Len(left_status)
        /\ Started
        /\ threads'[Len(threads')].kind \in {"btn", "btnup"}
        /\ \A d \in 1..Len(left_status) :
             left_status'[d] # left_status[d] => d = threads'[Len(threads')].dev
      ]_vars

\* The session has moved the pointer, pressed the middle button and closed
\* its transport on that press, and the left button is still recorded as
\* held.
C17_Witness ==
    /\ left_status = <<1>>
    /\ ch9329 = 0
    /\ closes = <<1>>
    /\ \E t \in 1..Len(threads) : threads[t].kind = "abs"
    /\ \E t \in 1..Len(threads) : threads[t].kind = "btn" /\ Pkt(t)[7] = 4

----------------------------------------------------------------------------
(* SpecKeys: the keyboard.  A test-mode session (MockCH9329) is being      *)
(* started: _start_remote_session has made the transport and is about to   *)
(* make the input hook; the user presses and releases keys meanwhile and   *)
(* afterwards.                                                             *)

\* The keys of the keyboard of the model: five modifier keys and a letter.
ModifierKeys == {"ctrl_l", "ctrl_r", "shift_l", "alt_r", "cmd"}
PhysKeys == ModifierKeys \cup {"a"}

\* The keys physically held.
Held == IF req.op = "keyboard" THEN req.a ELSE {}

\* class KeyCode
CTRL_L == 224

\* GlobalInputHook.MODIFIER_MAP.get(key): None (0 here) for a key that is
\* not a modifier.
MODIFIER_MAP(key) ==
    CASE key = "ctrl_l" -> 224
      [] key = "shift_l" -> 225
      [] key = "cmd" -> 227
      [] key = "ctrl_r" -> 228
      [] key = "alt_r" -> 230
      [] OTHER -> 0

\* Bit b of the mask s.
Bit(s, b) == (s \div Pow2(b)) % 2

\* GlobalInputHook._update_modifier: the new _modifier_state.
update_modifier(modifier_state, key, is_press) ==
    LET mod_code == MODIFIER_MAP(key)
        bit_position == mod_code - CTRL_L
    IN  IF mod_code = 0 THEN modifier_state
        ELSE IF is_press
             THEN modifier_state
                    + (1 - Bit(modifier_state, bit_position)) * Pow2(bit_position)
             ELSE modifier_state
                    - Bit(modifier_state, bit_position) * Pow2(bit_position)

\* A faulty variant of get_keycode: a modifier key has its KeyCode.
get_keycode_modifiers(key) == IF key = "a" THEN 4 ELSE MODIFIER_MAP(key)

\* GlobalInputHook._get_keycode: KEY_MAP gives 0x04 for 'a', and a modifier
\* key is in neither map.
get_keycode(key) == IF key = "a" THEN 4 ELSE 0

\* QKeyEvent.key(): Qt.Key_A, Qt.Key_Shift, Qt.Key_Control, Qt.Key_Meta,
\* Qt.Key_Alt.
Qt_Key(key) ==
    CASE key = "a" -> 65
      [] key = "shift_l" -> 16777248
      [] key = "cmd" -> 16777250
      [] key = "alt_r" -> 16777251
      [] OTHER -> 16777249

\* InputWidget._update_modifiers: _modifier_state rebuilt from
\* event.modifiers(), the modifiers held when Qt made the event.
update_modifiers(held) ==
    (IF held \cap {"ctrl_l", "ctrl_r"} # {} THEN 1 ELSE 0)
    + (IF "shift_l" \in held THEN 2 ELSE 0)
    + (IF "alt_r" \in held THEN 4 ELSE 0)
    + (IF "cmd" \in held THEN 8 ELSE 0)

\* The hook whose listeners are running and which hands events on.
HookActive == input_hook # 0 /\ hooks[input_hook].active

\* A key goes down or up.  The keyboard listener of an active hook is told
\* (_on_key_press, _on_key_release, on its own thread), and so is the
\* InputWidget when it has the focus and the GUI thread is free
\* (keyPressEvent, keyReleaseEvent).
KeyStroke(key, is_press, focused) ==
    LET held == IF is_press THEN Held \cup {key} ELSE Held \ {key}
        state == update_modifier(hooks[input_hook].modifier_state, key, is_press)
        hook_ev == KeyEvent(get_keycode(key), is_press, state)
        widget_ev == KeyEvent(Qt_Key(key), is_press, update_modifiers(held))
    IN  /\ Alive
        /\ HookActive => Idle("kb")
        /\ focused => Idle("ui") /\ window_open
        /\ req' = Req("keyboard", held)
        /\ hooks' = IF HookActive
                    THEN [hooks EXCEPT ![input_hook].modifier_state = state]
                    ELSE hooks
        /\ stack' = [stack EXCEPT
                       !["kb"] = IF HookActive /\ get_keycode(key) # 0
                                 THEN <<Frame("handle_input", "guard", 0, hook_ev)>>
                                 ELSE @,
                       !["ui"] = IF focused /\ Qt_Key(key) \notin {16777248, 16777249, 16777250, 16777251}
                                 THEN <<Frame("handle_input", "guard", 0, widget_ev)>>
                                 ELSE @]
        /\ UNCHANGED <<drv_vars, budget, is_remote_active, ch9329, video_thread,
                       video_capture, input_hook, window_mode, test_mode,
                       vthreads, captures, window_open>>

KeyPress ==
    \E key \in PhysKeys \ Held, focused \in BOOLEAN : KeyStroke(key, TRUE, focused)

KeyRelease ==
    \E key \in Held, focused \in BOOLEAN : KeyStroke(key, FALSE, focused)

InitKeys ==
    /\ is_remote_active = FALSE
    /\ ch9329 = 1
    /\ video_thread = 0
    /\ video_capture = 0
    /\ input_hook = 0
    /\ window_mode \in BOOLEAN
    /\ test_mode = TRUE
    /\ vthreads = <<>>
    /\ captures = <<>>
    /\ hooks = <<>>
    /\ window_open = TRUE
    /\ left_status = <<0>>
    /\ is_moving = <<FALSE>>
    /\ serial_port = <<"none">>
    /\ threads = <<>>
    /\ wire = <<>>
    /\ calls = 0
    /\ closes = <<0>>
    /\ stack = [c \in Ctx |->
                  IF c = "ui" THEN <<Frame("start", "hook", 0, NoEv)>> ELSE <<>>]
    /\ req = Req("keyboard", {})
    /\ budget = [threads |-> 0, inputs |-> 0]

KeyHandle == \E c \in Ctx : HGuard(c) \/ HDiscard(c) \/ HKey(c) \/ HRet(c)

NextKeys ==
    \/ StartHook
    \/ StartActivate
    \/ KeyPress
    \/ KeyRelease
    \/ KeyHandle

SpecKeys == InitKeys /\ [][NextKeys]_vars

\* The step hands a KeyEvent to the controller on context c.
KeyDelivered(c) ==
    /\ stack'[c] # stack[c]
    /\ stack'[c] # <<>>
    /\ Last(stack'[c]).fn = "handle_input"
    /\ Last(stack'[c]).at = "guard"
    /\ Last(stack'[c]).ev.type = "key"

\* The modifiers a mask names (0 ctrl, 1 shift, 2 alt, 3 meta; bits 4..7
\* are the right-hand keys of the same four), and the modifiers that keys
\* held are.
MaskModifiers(mask) == {b % 4 : b \in {i \in 0..7 : Bit(mask, i) = 1}}
HeldModifiers(held) ==
    {CASE key = "shift_l" -> 1 [] key = "alt_r" -> 2 [] key = "cmd" -> 3
       [] OTHER -> 0 : key \in held \cap ModifierKeys}

\* C20: every KeyEvent handed to the controller, by the global hook or by
\* the window, carries a modifier mask that names exactly the modifier keys
\* physically held at the moment of the event.
C20_ModifierConsistency ==
    [][\A c \in Ctx :
         KeyDelivered(c) =>
            MaskModifiers(Last(stack'[c]).ev.modifier) = HeldModifiers(Held')
      ]_vars

\* The KeyEvents the controller has been handed and has not returned from.
KeyFrames ==
    {f \in UNION {{stack[c][i] : i \in 1..Len(stack[c])} : c \in Ctx} :
        f.fn = "handle_input" /\ f.ev.type = "key"}

\* C21: the modifier mask of every KeyEvent is a 4-bit set: its value is in
\* 0..15 (ctrl 0x01, shift 0x02, alt 0x04, meta 0x08), whichever source made
\* the event and whichever hand's modifier keys are held.
C21_FourBitMask == \A f \in KeyFrames : f.ev.modifier \in 0..15

\* A modifier key goes down or up in the step.
ModifierStroke ==
    \E key \in ModifierKeys : (key \in Held) # (key \in Held')

\* C22: a press or release of a physical modifier key only updates the
\* modifier mask: the step hands no KeyEvent to the controller, from the
\* hook or from the window.
C22_ModifiersSwallowed ==
    [][ModifierStroke => stack' = stack]_vars

\* Both ctrl keys are down, the hook has recorded them, and the controller
\* of the running session has been handed nothing.
C22_Witness ==
    /\ is_remote_active
    /\ HookActive
    /\ Held = {"ctrl_l", "ctrl_r"}
    /\ hooks[input_hook].modifier_state = 17
    /\ \A c \in Ctx : Idle(c)

----------------------------------------------------------------------------
(* Claims about the order of a session's start and stop. *)

\* C23: session start acquires the transport, then the video source, then
\* the input hook: a video capture has been started only once a transport
\* (CH9329 or mock) has been created, and a hook has been created only once
\* the video part of the start is over and a transport exists.
C23_StartOrder ==
    /\ Len(captures) > 0 => Len(serial_port) > 0
    /\ Len(hooks) > 0 => Len(serial_port) > 0

\* C24: session stop tears down in the reverse order: the hook of the session
\* is stopped before its video thread and capture, and these before its
\* transport is closed.
C24_StopOrder ==
    /\ (vthreads[1].stops > 0 \/ captures[1].stops > 0) => hooks[1].stops > 0
    /\ closes[1] > 0 => (vthreads[1].stops > 0 /\ captures[1].stops > 0)

\* C28: no send thread performs a write on a port that close() has already
\* released: every submitted packet is written while the port is open or is
\* dropped at the is_open check.
C28_NoWriteAfterClose ==
    \A t \in 1..Len(threads) : threads[t].pc # "dead"

\* C25: while the session is active, every middle-button press handed to
\* the controller triggers stop: once its handler is at its return, the
\* session is inactive and the video thread, the capture, the hook and the
\* transport are torn down.
C25_MiddleButtonStops ==
    \A c \in Ctx :
        (/\ ~Idle(c)
         /\ Top(c).fn = "handle_input"
         /\ Top(c).at = "ret"
         /\ Top(c).ev.is_press
         /\ Top(c).ev.button = 4) =>
            /\ ~is_remote_active
            /\ video_thread = 0
            /\ video_capture = 0
            /\ input_hook = 0
            /\ ch9329 = 0

----------------------------------------------------------------------------
(* Claims about the fallbacks of a session's start. *)

\* Context c takes the step, from position at of function fn.
StepFrom(c, fn, at) ==
    /\ ~Idle(c)
    /\ Top(c).fn = fn
    /\ Top(c).at = at
    /\ stack'[c] # stack[c]

\* The transport of the session is a sink without a serial port.
SinkTransport == ch9329 # 0 /\ serial_port[ch9329] = "none"

\* C26: the transport part of a start always leaves a transport behind and
\* goes on to the input part, and in test mode that transport is the no-op
\* sink (as it is when no port is selected or the port cannot be opened);
\* with the sink as transport, the key, move, scroll and button requests of
\* the handlers start no send thread, write nothing, change nothing in any
\* driver, and raise nothing.
C26_SinkFallback ==
    [][/\ StepFrom("ui", "start", "transport") =>
            /\ ch9329' # 0
            /\ test_mode => serial_port'[ch9329'] = "none"
            /\ stack'["ui"][Len(stack'["ui"])].fn = "start"
            /\ stack'["ui"][Len(stack'["ui"])].at = "hook"
       /\ \A c \in Ctx :
            (/\ SinkTransport
             /\ \/ StepFrom(c, "handle_input", "key")
                \/ StepFrom(c, "handle_input", "mouse_move")
                \/ StepFrom(c, "handle_input", "mouse_button")) =>
                /\ UNCHANGED drv_vars
                /\ stack'[c][1].fn \notin {"abort", "dead"}
      ]_vars

\* Not in test mode, the session is active with the sink as transport (no
\* port, or the port could not be opened), a mapped key press has been
\* handled to its return, and no send thread exists.
C26_Witness ==
    /\ is_remote_active
    /\ ~test_mode
    /\ SinkTransport
    /\ threads = <<>>
    /\ \E f \in KeyFrames : f.at = "ret" /\ f.ev.is_press /\ f.ev.keycode = 65

----------------------------------------------------------------------------
(* SpecFallback: a running global-mode session whose window-mode box the   *)
(* user leaves alone, so that _window_mode becomes true only by the        *)
(* fallback of a start whose hook could not be created or started.         *)

InitFallback ==
    /\ is_remote_active = TRUE
    /\ ch9329 = 1
    /\ video_thread = 1
    /\ video_capture = 1
    /\ input_hook = 1
    /\ window_mode = FALSE
    /\ test_mode = FALSE
    /\ vthreads = <<[running |-> TRUE, stops |-> 0]>>
    /\ captures = <<Capture(video_width, video_height)>>
    /\ hooks = <<[active |-> TRUE, stops |-> 0, modifier_state |-> 0]>>
    /\ window_open = TRUE
    /\ left_status = <<0>>
    /\ is_moving = <<FALSE>>
    /\ serial_port = <<"open">>
    /\ threads = <<Thread(1, init_packet, "init", 0)>>
    /\ wire = <<>>
    /\ calls = 0
    /\ closes = <<0>>
    /\ stack = [c \in Ctx |-> <<>>]
    /\ req = NoReq
    /\ budget = [threads |-> MaxGuardThreads, inputs |-> MaxGuardInputs]

NextFallback ==
    \/ ClickStartStop
    \/ CloseWindow
    \/ CloseWindowDone
    \/ ToggleTestMode
    \/ WidgetEvent
    \/ HookKeyEvent
    \/ HookMouseEvent
    \/ Start
    \/ Stop
    \/ Handle
    \/ SessSend

SpecFallback == InitFallback /\ [][NextFallback]_vars

\* A listener thread of a global hook hands an event to the controller.
HookDelivers == \E c \in {"kb", "ms"} : Idle(c) /\ stack'[c] # <<>>

\* C27: when the global hook cannot be created or started, the start sets
\* the window-mode setting, goes on to activate the session, and during the
\* session so started (active, window mode set by the fallback) no listener
\* thread of a global hook hands an event to the controller.
C27_HookFallback ==
    [][/\ (StepFrom("ui", "start", "hook") /\ ~window_mode
              /\ (input_hook' = input_hook \/ ~hooks'[input_hook'].active)) =>
            /\ window_mode'
            /\ stack'["ui"][Len(stack'["ui"])].at = "activate"
       /\ (is_remote_active /\ window_mode) => ~HookDelivers
      ]_vars

----------------------------------------------------------------------------
(* SpecGranted: one pointer event handled by a running session whose       *)
(* capture device was asked for the default 1920x1080 and granted that     *)
(* size or another one.                                                    *)

GrantedWidgets == {<<1280, 1024>>, <<800, 600>>}

\* As InitPointer, the size of the capture drawn from what the device may
\* grant (VideoCapture.start: self.width = actual_w, self.height = actual_h).
InitGranted ==
    /\ is_remote_active = TRUE
    /\ ch9329 = 1
    /\ video_thread = 1
    /\ video_capture = 1
    /\ input_hook = 1
    /\ window_mode = FALSE
    /\ test_mode = FALSE
    /\ vthreads = <<[running |-> TRUE, stops |-> 0]>>
    /\ hooks = <<[active |-> TRUE, stops |-> 0, modifier_state |-> 0]>>
    /\ window_open = TRUE
    /\ left_status = <<0>>
    /\ is_moving = <<FALSE>>
    /\ serial_port = <<"open">>
    /\ threads = <<[Thread(1, init_packet, "init", 0) EXCEPT !.pc = "done"]>>
    /\ wire = <<1>>
    /\ calls = 0
    /\ closes = <<0>>
    /\ budget = [threads |-> MaxPointerThreads, inputs |-> 0]
    /\ \E w \in GrantedWidgets :
         LET g == <<w[1], w[2], video_width, video_height>>
         IN  /\ req = Req("geometry", g)
             /\ \E size \in {<<video_width, video_height>>, <<640, 480>>} :
                  captures = <<Capture(size[1], size[2])>>
             /\ \E c \in {"ui", "ms"}, ev \in PointerEvents(g) :
                  stack = [x \in Ctx |->
                             IF x = c
                             THEN <<Frame("handle_input", "guard", 0, ev)>>
                             ELSE <<>>]

SpecGranted == InitGranted /\ [][NextPointer]_vars

\* The rectangle the picture of the capture fills in the video label: the
\* frames have the size the device granted, and update_frame scales them to
\* the label with their aspect ratio kept.
ActualRect ==
    display_rect(Geometry[1], Geometry[2], captures[video_capture].width,
                 captures[video_capture].height)

\* The absolute-move packet of an event at widget point (ex, ey), computed
\* with the size the capture reports.
ActualPkt(ex, ey) ==
    LET aw == captures[video_capture].width
        ah == captures[video_capture].height
    IN  mouse_move_abs_packet(
            abs_coord(ex - ActualRect.offset_x, ActualRect.display_w, aw),
            abs_coord(ey - ActualRect.offset_y, ActualRect.display_h, ah),
            aw, ah, left_status[ch9329])

\* C29: when the capture was granted a size other than the requested one, the
\* handler of a pointer event works with the granted size: a move is sent
\* only for an event inside the rectangle the granted picture fills, and the
\* packet is the one mouse_move_abs builds from that rectangle and with the
\* granted size as screen_w and screen_h.
C29_ActualSize ==
    [][\A c \in Ctx :
          (/\ StepFrom(c, "handle_input", "mouse_move")
           /\ Top(c).ev.scroll_delta = 0
           /\ video_capture # 0
           /\ Started) =>
              LET lx == Top(c).ev.x - ActualRect.offset_x
                  ly == Top(c).ev.y - ActualRect.offset_y
              IN  /\ 0 <= lx /\ lx <= ActualRect.display_w
                  /\ 0 <= ly /\ ly <= ActualRect.display_h
                  /\ NewPkt = ActualPkt(Top(c).ev.x, Top(c).ev.y)
      ]_vars

----------------------------------------------------------------------------
(* Claims about the geometry of the displayed rectangle. *)

\* The handler of a pointer event has computed the rectangle: the widget has
\* a size and the handler is past its in_video_area test.
RectComputed ==
    /\ Geometry[1] > 0 /\ Geometry[2] > 0
    /\ Geometry[3] > 0 /\ Geometry[4] > 0
    /\ \E c \in Ctx :
         \E i \in 1..Len(stack[c]) :
            /\ stack[c][i].fn = "handle_input"
            /\ stack[c][i].ev.type = "mouse"
            /\ stack[c][i].at \in {"mouse_move", "mouse_button", "mouse_stop",
                                   "ret"}

\* d is a / b rounded to the nearest integer, either neighbour at a tie.
Nearest(d, a, b) == 2 * d * b - b <= 2 * a /\ 2 * a <= 2 * d * b + b

\* d is a / b cut to an integer: the whole part of the quotient, or one less
\* where the quotient is itself whole and the double product falls short.
Cut(d, a, b) == d * b <= a /\ a <= (d + 1) * b

\* C30 as stated: for positive widget sizes (Ww, Wh) and video sizes (Vw, Vh),
\* if Ww/Wh > Vw/Vh then display_h = Wh, display_w = round(Wh*Vw/Vh),
\* offset_x = (Ww - display_w)/2 and offset_y = 0; otherwise display_w = Ww,
\* display_h = round(Ww*Vh/Vw), offset_x = 0 and
\* offset_y = (Wh - display_h)/2.  (The halves are read as whole pixels.)
C30_RoundedRect ==
    RectComputed =>
        LET Ww == Geometry[1]
            Wh == Geometry[2]
            Vw == Geometry[3]
            Vh == Geometry[4]
            rect == display_rect(Ww, Wh, Vw, Vh)
        IN  IF Ww * Vh > Vw * Wh
            THEN /\ rect.display_h = Wh
                 /\ Nearest(rect.display_w, Wh * Vw, Vh)
                 /\ rect.offset_x = (Ww - rect.display_w) \div 2
                 /\ rect.offset_y = 0
            ELSE /\ rect.display_w = Ww
                 /\ Nearest(rect.display_h, Ww * Vh, Vw)
                 /\ rect.offset_x = 0
                 /\ rect.offset_y = (Wh - rect.display_h) \div 2

\* C30: for positive widget sizes (Ww, Wh) and video sizes (Vw, Vh), if
\* Ww/Wh > Vw/Vh then display_h = Wh, display_w is Wh*Vw/Vh cut to an integer,
\* offset_x is (Ww - display_w)/2 rounded down and offset_y = 0; otherwise
\* display_w = Ww, display_h is Ww*Vh/Vw cut to an integer, offset_x = 0 and
\* offset_y is (Wh - display_h)/2 rounded down.
C30_DisplayRect ==
    RectComputed =>
        LET Ww == Geometry[1]
            Wh == Geometry[2]
            Vw == Geometry[3]
            Vh == Geometry[4]
            rect == display_rect(Ww, Wh, Vw, Vh)
        IN  IF Ww * Vh > Vw * Wh
            THEN /\ rect.display_h = Wh
                 /\ Cut(rect.display_w, Wh * Vw, Vh)
                 /\ 2 * rect.offset_x \in
                        {Ww - rect.display_w, Ww - rect.display_w - 1}
                 /\ rect.offset_y = 0
            ELSE /\ rect.display_w = Ww
                 /\ Cut(rect.display_h, Ww * Vh, Vw)
                 /\ rect.offset_x = 0
                 /\ 2 * rect.offset_y \in
                        {Wh - rect.display_h, Wh - rect.display_h - 1}

\* A pointer event has been handled for a 1366x768 video in a 1280x1024
\* label: the picture is 1280 wide and 1280*768/1366 = 719.65 cut to 719
\* high, with bars of 152 pixels above and below.
C30_Witness ==
    /\ RectComputed
    /\ Geometry = <<1280, 1024, 1366, 768>>
    /\ Letterbox = [display_w |-> 1280, display_h |-> 719,
                    offset_x |-> 0, offset_y |-> 152]

----------------------------------------------------------------------------
(* Claims about the end of a send. *)

\* Every send thread has finished: it reached the end of _send, or died in
\* serial_port.write().
AllSendsOver ==
    \A t \in 1..Len(threads) : threads[t].pc \in {"done", "dead"}

\* C31: once every send started by _send_packet has finished - its write
\* succeeded, the port was not open, or the write failed with an error -
\* _is_moving is False, so that a later mouse_move_rel is accepted.
C31_FlagCleared == AllSendsOver => ~is_moving[1]

----------------------------------------------------------------------------
(* SpecCursor: the physical pointer over the screen, a running session in  *)
(* window or global mode, and the two sources of MouseEvents: InputWidget  *)
(* on the GUI thread and the mouse listener of the hook on its own thread. *)
(* req holds the pointer: the screen position of the widget's top-left     *)
(* corner (origin), the screen position of the cursor (pos), _last_poll_pos *)
(* of the widget (<<>> for None) and, for each turn of the wheel so far,   *)
(* whether the cursor was over the displayed picture (wheel).              *)

MaxCursorThreads == 3
MaxCursorInputs == 2

Origins == {<<0, 0>>, <<100, 50>>}
CursorPoints == {<<740, 562>>, <<110, 60>>, <<50, 20>>}

\* self.mapFromGlobal(QCursor.pos())
WidgetPos(a) == <<a.pos[1] - a.origin[1], a.pos[2] - a.origin[2]>>

\* The cursor is over the InputWidget (enterEvent has set _poll_enabled and
\* Qt sends the widget the mouse events).
OverWidget(a) ==
    /\ 0 <= WidgetPos(a)[1] /\ WidgetPos(a)[1] < widget_size[1]
    /\ 0 <= WidgetPos(a)[2] /\ WidgetPos(a)[2] < widget_size[2]

\* The cursor is over the displayed picture.
OverPicture(a) == OverWidget(a) /\ in_video_area(WidgetPos(a)[1], WidgetPos(a)[2])

\* GlobalInputHook._on_mouse_move, _on_mouse_click, _on_mouse_scroll: the
\* x, y of pynput are screen coordinates.
HookMouse(kind, arg, a) ==
    CASE kind = "move" -> MouseEvent(arg[1], arg[2], 0, FALSE, FALSE, 0)
      [] kind = "press" -> MouseEvent(a.pos[1], a.pos[2], arg, TRUE, FALSE, 0)
      [] kind = "release" -> MouseEvent(a.pos[1], a.pos[2], arg, FALSE, TRUE, 0)
      [] OTHER -> MouseEvent(a.pos[1], a.pos[2], 0, FALSE, FALSE, arg)

\* InputWidget.mousePressEvent, mouseReleaseEvent, wheelEvent.
WidgetMouse(kind, arg, a) ==
    CASE kind = "press" ->
            MouseEvent(WidgetPos(a)[1], WidgetPos(a)[2], arg, TRUE, FALSE, 0)
      [] kind = "release" ->
            MouseEvent(WidgetPos(a)[1], WidgetPos(a)[2], 0, FALSE, TRUE, 0)
      [] OTHER -> MouseEvent(0, 0, 0, FALSE, FALSE, IF arg > 0 THEN 1 ELSE -1)

\* The user moves the mouse, presses or releases a button, or turns the
\* wheel.  The mouse listener of an active hook is told on its thread; the
\* InputWidget under the cursor is told of a press, a release and the wheel
\* on the GUI thread (a move it learns from its poll timer).
PointerAct(kind, arg) ==
    LET a == req.a
        moved == [a EXCEPT !.pos = IF kind = "move" THEN arg ELSE @]
        widget_told == kind # "move" /\ OverWidget(a)
    IN  /\ Alive
        /\ HookActive => Idle("ms")
        /\ widget_told => Idle("ui") /\ window_open
        /\ Input
        /\ req' = Req("cursor",
                      [moved EXCEPT
                         !.last_poll = IF OverWidget(moved) THEN @ ELSE <<>>,
                         !.wheel = IF kind = "wheel"
                                   THEN Append(@, OverPicture(a)) ELSE @])
        /\ stack' = [stack EXCEPT
                       !["ms"] = IF HookActive
                                 THEN <<Frame("handle_input", "guard", 0,
                                              HookMouse(kind, arg, a))>>
                                 ELSE @,
                       !["ui"] = IF widget_told
                                 THEN <<Frame("handle_input", "guard", 0,
                                              WidgetMouse(kind, arg, a))>>
                                 ELSE @]
        /\ UNCHANGED <<drv_vars, sess_vars>>

MouseMoves == \E p \in CursorPoints \ {req.a.pos} : PointerAct("move", p)
MousePress == PointerAct("press", 1)
MouseRelease == PointerAct("release", 1)
MouseWheel == \E dy \in {-1, 1} : PointerAct("wheel", dy)

\* InputWidget._poll_mouse_position, every 16 ms while the cursor is over
\* the widget: a position not yet reported is handed to the callback.
PollMouse ==
    LET a == req.a
        widget_pos == WidgetPos(a)
    IN  /\ Alive /\ window_open /\ Idle("ui")
        /\ OverWidget(a)
        /\ widget_pos # a.last_poll
        /\ req' = Req("cursor", [a EXCEPT !.last_poll = widget_pos])
        /\ stack' = [stack EXCEPT !["ui"] =
                       <<Frame("handle_input", "guard", 0,
                               MouseEvent(widget_pos[1], widget_pos[2], 0,
                                          FALSE, FALSE, 0))>>]
        /\ UNCHANGED <<drv_vars, budget, sess_vars>>

\* A running session with an open port, in window mode (no hook) or in
\* global mode (the hook started).
InitCursor ==
    /\ is_remote_active = TRUE
    /\ ch9329 = 1
    /\ video_thread = 1
    /\ video_capture = 1
    /\ window_mode \in BOOLEAN
    /\ input_hook = IF window_mode THEN 0 ELSE 1
    /\ hooks = IF window_mode THEN <<>>
               ELSE <<[active |-> TRUE, stops |-> 0, modifier_state |-> 0]>>
    /\ test_mode = FALSE
    /\ vthreads = <<[running |-> TRUE, stops |-> 0]>>
    /\ captures = <<Capture(video_width, video_height)>>
    /\ window_open = TRUE
    /\ left_status = <<0>>
    /\ is_moving = <<FALSE>>
    /\ serial_port = <<"open">>
    /\ threads = <<[Thread(1, init_packet, "init", 0) EXCEPT !.pc = "done"]>>
    /\ wire = <<1>>
    /\ calls = 0
    /\ closes = <<0>>
    /\ stack = [c \in Ctx |-> <<>>]
    /\ \E o \in Origins, p \in CursorPoints :
         req = Req("cursor", [origin |-> o, pos |-> p, last_poll |-> <<>>,
                              wheel |-> <<>>])
    /\ budget = [threads |-> MaxCursorThreads, inputs |-> MaxCursorInputs]

CursorHandle ==
    \E c \in Ctx :
        \/ HGuard(c) \/ HMouseGuard(c) \/ HMouseMove(c) \/ HMouseButton(c)
        \/ HRet(c)

NextCursor ==
    \/ MouseMoves
    \/ MousePress
    \/ MouseRelease
    \/ MouseWheel
    \/ PollMouse
    \/ CursorHandle
    \/ SessSend

SpecCursor == InitCursor /\ [][NextCursor]_vars

\* The step hands a MouseEvent to the controller on context c.
MouseDelivered(c) ==
    /\ stack'[c] # stack[c]
    /\ stack'[c] # <<>>
    /\ Last(stack'[c]).fn = "handle_input"
    /\ Last(stack'[c]).at = "guard"
    /\ Last(stack'[c]).ev.type = "mouse"

\* C32: every pointer event handed to the session controller, by the
\* window's poll and mouse callbacks or by the hook's move, click and scroll
\* callbacks, carries the cursor's position in the pixel space of the display
\* widget.
C32_WidgetSpace ==
    [][\A c \in Ctx :
         MouseDelivered(c) =>
            <<Last(stack'[c]).ev.x, Last(stack'[c]).ev.y>> = WidgetPos(req'.a)
      ]_vars

----------------------------------------------------------------------------
(* Claims about the session's state. *)

\* C33: whatever fails while a session starts - the video source, the
\* opening of the serial port, the global hook, or all of them -
\* _start_remote_session ends with the session active and with a transport,
\* a CH9329 with its port open or a MockCH9329.
C33_StartNeverRefuses ==
    [][StepFrom("ui", "start", "activate") =>
          /\ is_remote_active'
          /\ ch9329' # 0
          /\ serial_port'[ch9329'] \in {"open", "none"}
      ]_vars

\* No _start_remote_session and no _stop_remote_session is in progress, on
\* any thread.
NoStartStop ==
    \A c \in Ctx :
        \A i \in 1..Len(stack[c]) : stack[c][i].fn \notin {"start", "stop"}

\* C34: whenever the session is marked active and no start or stop is in
\* progress, the transport is not None; and whenever _stop_remote_session
\* returns, _is_remote_active is false and _ch9329, _video_thread,
\* _video_capture and _input_hook are all None, also when a click on
\* Start/Stop was dispatched by the processEvents() call inside it.
C34_StateConsistent ==
    [][/\ (is_remote_active /\ NoStartStop) => ch9329 # 0
       /\ \A c \in Ctx :
            StepFrom(c, "stop", "ui_reset") =>
               /\ ~is_remote_active'
               /\ ch9329' = 0
               /\ video_thread' = 0
               /\ video_capture' = 0
               /\ input_hook' = 0
      ]_vars

\* Context c takes a step of a handler that calls a method of self._ch9329:
\* key_type in _handle_key_event for a press of a mapped key; mouse_scroll or
\* mouse_move_abs, and mouse_button_down or mouse_button_up_all, in
\* _handle_mouse_event.
CallsTransport(c) ==
    \/ /\ StepFrom(c, "handle_input", "key")
       /\ Top(c).ev.is_press
       /\ KeyMap_get_hid_code(Top(c).ev.keycode) # 0
    \/ StepFrom(c, "handle_input", "mouse_move")
    \/ /\ StepFrom(c, "handle_input", "mouse_button")
       /\ (Top(c).ev.is_press \/ Top(c).ev.is_release)

\* C35: under every interleaving of the hook's callbacks with
\* _stop_remote_session, self._ch9329 is not None wherever _handle_key_event
\* or _handle_mouse_event calls a method on it.
C35_TransportNotNone ==
    [][\A c \in Ctx : CallsTransport(c) => ch9329 # 0]_vars

----------------------------------------------------------------------------
(* Claims about the buttons and the wheel. *)

\* C36: every button release handled while the session is active, wherever
\* the pointer is at the release, has reset left_status to 0 and started the
\* send of the release-all packet by the time its handler returns.
C36_ReleaseAlwaysSent ==
    \A f \in PointerFrames :
        (f.ev.is_release /\ f.at = "ret") =>
            /\ left_status[1] = 0
            /\ \E t \in 1..Len(threads) : threads[t].kind = "btnup"

\* C37: every relative-move, absolute-move, scroll and button-down packet
\* sent while left_status is 1 (as the call leaves it) has bit 0 of its button
\* byte set: a held left button is never reported as released by a later
\* scroll packet or by a press of the right or middle button.
C37_ButtonByteKeepsLeft ==
    [][(/\ Started
        /\ threads'[Len(threads')].kind \in {"rel", "abs", "scroll", "btn"}
        /\ left_status'[threads'[Len(threads')].dev] = 1) =>
          NewPkt[7] % 2 = 1
      ]_vars

\* The scroll packets handed to send threads so far.
ScrollThreads == {t \in 1..Len(threads) : threads[t].kind = "scroll"}

\* C38: each turn of the wheel made while the session is active and the
\* cursor is over the displayed picture results in exactly one scroll packet,
\* in window mode and in global mode: once the handlers have returned there
\* are as many scroll packets as such turns.
C38_OneScrollPacket ==
    (/\ \A c \in Ctx : stack[c] = <<>>
     /\ \A i \in 1..Len(req.a.wheel) : req.a.wheel[i]) =>
        Cardinality(ScrollThreads) = Len(req.a.wheel)

----------------------------------------------------------------------------
(* SpecVideo: VideoThread.  The GUI thread starts a thread on the running  *)
(* capture and stops it (_start_remote_session, _restart_video_capture,    *)
(* _stop_remote_session); run() executes on the thread, one statement at a *)
(* time.  A record of vthreads has here the place run() has reached as     *)
(* well: "new" (started, run() not yet entered), "test" (at `while         *)
(* self._running`), "read" (at read_frame) or "exited"; and _frame_count.  *)

\* VideoThreads a run may start.
MaxVideoThreads == 3
\* Frames a VideoThread counts before the count is reset.
MaxFrames == 3

InitVideo ==
    /\ is_remote_active = TRUE
    /\ ch9329 = 0
    /\ video_thread = 0
    /\ video_capture = 1
    /\ input_hook = 0
    /\ window_mode = TRUE
    /\ test_mode = FALSE
    /\ vthreads = <<>>
    /\ captures = <<Capture(video_width, video_height)>>
    /\ hooks = <<>>
    /\ window_open = TRUE
    /\ left_status = <<>>
    /\ is_moving = <<>>
    /\ serial_port = <<>>
    /\ threads = <<>>
    /\ wire = <<>>
    /\ calls = 0
    /\ closes = <<>>
    /\ stack = [c \in Ctx |-> <<>>]
    /\ req = NoReq
    /\ budget = [threads |-> 0, inputs |-> 0]

\* self._video_thread = VideoThread(self._video_capture); .start()
VtStart ==
    /\ Idle("ui")
    /\ video_thread = 0
    /\ Len(vthreads) < MaxVideoThreads
    /\ vthreads' = Append(vthreads, [running |-> FALSE, stops |-> 0,
                                     pc |-> "new", frame_count |-> 0])
    /\ video_thread' = Len(vthreads) + 1
    /\ UNCHANGED <<drv_vars, stack, req, budget, is_remote_active, ch9329,
                   video_capture, input_hook, window_mode, test_mode, captures,
                   hooks, window_open>>

\* `if self._video_thread: self._video_thread.stop()`: the call.
VtStopCall ==
    /\ Idle("ui")
    /\ video_thread # 0
    /\ Push("ui", Frame("vt_stop", "set", video_thread, NoEv))
    /\ OnlyStack

\* VideoThread.stop: self._running = False
VtStopSet ==
    /\ At("ui", "vt_stop", "set")
    /\ vthreads' = [vthreads EXCEPT ![Top("ui").dev].running = FALSE]
    /\ Goto("ui", "wait")
    /\ UNCHANGED <<drv_vars, req, budget, sess_vars_but_vthreads>>

\* VideoThread.stop: self.wait() returns once run() has returned; then
\* `self._video_thread = None`.
VtStopWait ==
    /\ At("ui", "vt_stop", "wait")
    /\ vthreads[Top("ui").dev].pc = "exited"
    /\ vthreads' = [vthreads EXCEPT ![Top("ui").dev].stops = @ + 1]
    /\ video_thread' = 0
    /\ Pop("ui")
    /\ UNCHANGED <<drv_vars, req, budget, is_remote_active, ch9329,
                   video_capture, input_hook, window_mode, test_mode, captures,
                   hooks, window_open>>

\* VideoThread.run: self._running = True (and the counters).
VtRunBegin(i) ==
    /\ vthreads[i].pc = "new"
    /\ vthreads' = [vthreads EXCEPT ![i].running = TRUE, ![i].pc = "test",
                                    ![i].frame_count = 0]
    /\ UNCHANGED <<drv_vars, stack, req, budget, sess_vars_but_vthreads>>

\* VideoThread.run: `while self._running:`
VtTest(i) ==
    /\ vthreads[i].pc = "test"
    /\ vthreads' = [vthreads EXCEPT ![i].pc = IF vthreads[i].running
                                               THEN "read" ELSE "exited"]
    /\ UNCHANGED <<drv_vars, stack, req, budget, sess_vars_but_vthreads>>

\* VideoThread.run: the body of the loop.  read_frame() gives a frame or
\* none; a frame is emitted and counted; once a second has passed the rate
\* is emitted and the count starts again.
VtRead(i) ==
    /\ vthreads[i].pc = "read"
    /\ \E ret \in BOOLEAN, second_over \in BOOLEAN :
         /\ (ret /\ ~second_over) => vthreads[i].frame_count < MaxFrames
         /\ vthreads' = [vthreads EXCEPT
                           ![i].pc = "test",
                           ![i].frame_count = IF second_over THEN 0
                                              ELSE IF ret THEN @ + 1 ELSE @]
    /\ UNCHANGED <<drv_vars, stack, req, budget, sess_vars_but_vthreads>>

VtRun == \E i \in 1..Len(vthreads) : VtRunBegin(i) \/ VtTest(i) \/ VtRead(i)

NextVideo ==
    \/ VtStart
    \/ VtStopCall
    \/ VtStopSet
    \/ VtStopWait
    \/ VtRun

SpecVideo == InitVideo /\ [][NextVideo]_vars

\* stop() of VideoThread i has cleared _running and is in wait().
Waiting(i) ==
    /\ stack["ui"] # <<>>
    /\ Top("ui").fn = "vt_stop"
    /\ Top("ui").at = "wait"
    /\ Top("ui").dev = i

\* C39: VideoThread.stop() always terminates and leaves the loop stopped,
\* under every interleaving of start(), run() and stop(), a stop() made
\* before run() has executed its first statement included: while stop()
\* waits, _running stays False, so that the loop of run() exits and wait()
\* returns; and the loop does not call read_frame after stop() has returned.
C39_StopTerminates ==
    [][\A i \in 1..Len(vthreads) :
          /\ Waiting(i) => ~vthreads[i].running
          /\ (vthreads[i].pc = "read" /\ vthreads'[i].pc # "read") =>
                vthreads[i].stops = 0
      ]_vars

====
